---- MODULE Spec2Model ----
(***************************************************************************)
(* Model of backend/ble_manager.py (BLEManager), src/ble/scanner.py        *)
(* (DartsLiveScanner.scan_with_retry) and src/ble/client.py                *)
(* (DartsLiveClient).                                                      *)
(*                                                                         *)
(* Two groups of variables:                                                *)
(*   - the ingestion path: the bounded queue fed by _on_throw_data and     *)
(*     drained by the worker thread _process_throws_worker;                *)
(*   - the supervisor: the threads spawned by start_background, each one   *)
(*     running _connect_and_listen on its own event loop.                  *)
(* stop() writes to both groups.  The ingestion actions never read or      *)
(* write a supervisor variable and the supervisor actions never read or    *)
(* write an ingestion variable, so each group is explored under its own    *)
(* specification (SpecIngest, Spec); start_background and stop are         *)
(* actions of both.                                                        *)
(*                                                                         *)
(* Three components have variables and specifications of their own:        *)
(*   - backend/event_bus.py (EventBus), SpecBus;                           *)
(*   - src/data/mapper.py (SegmentMapper), SpecMapper; the worker decodes  *)
(*     its samples with the table of this mapper;                          *)
(*   - DartsLiveClient._notification_handler, SpecNotify.                  *)
(***************************************************************************)
EXTENDS Integers, Sequences, FiniteSets, TLC

VARIABLES
    \* ---- BLEManager attributes
    is_running,         \* self.is_running
    worker_running,     \* self._worker_running
    processing_queue,   \* self._processing_queue (FIFO of samples)
    client,             \* self.client: 0 = None, t = the client object made by thread t
    loop,               \* self._loop: 0 = None, t = the event loop of thread t
    nthreads,           \* number of threads created by start_background
    \* ---- worker thread (_process_throws_worker)
    wpc,                \* position of the worker
    throw_data,         \* the sample the worker holds (Nil outside processing)
    seg_info,           \* the worker's base_number, multiplier, segment_name
                        \* (line 248) for that sample
    saved,              \* rows written by database.save_throw, oldest first
    published,          \* events published by the worker, oldest first
    \* ---- supervisor threads (_run_ble_loop / _connect_and_listen)
    pc,                 \* position of each thread
    attempt,            \* scan_with_retry: loop variable attempt
    cattempt,           \* connect_with_retry: loop variable attempt
    reconnect_attempt,  \* _connect_and_listen: reconnect_attempt
    cl,                 \* the DartsLiveClient object of each thread
    spc,                \* position of the caller of stop()
    \* ---- history (observations, not program state)
    npush,              \* number of calls of _on_throw_data so far
    nget,               \* number of samples dequeued by the worker so far
    rejected,           \* timestamps of the samples refused by a full queue
    full_logged,        \* number of "queue full" error log lines
    push_outcome,       \* how the last _on_throw_data call ended
    failed,             \* the samples whose processing raised
    scanlog,            \* what the current scanning phase of each thread did
    stop_requested,     \* stop() was called and start_background not since
    stopInMonitor,      \* per thread: stop() was last called while the thread
                        \* was in its monitoring loop
    stopInWait,         \* per thread: stop() was called during the wait the
                        \* thread is still suspended in
    \* ---- EventBus (backend/event_bus.py)
    subscribers,        \* self._subscribers: event type -> list of callbacks
    pub,                \* the publish() call in progress, or the last one
    invoked,            \* history: the callbacks that call has invoked so far
    registered,         \* history: the list of the type when the call began
    mutated,            \* history: that list was changed during the call
    changes,            \* history: changes of the table during the call
    pub_outcome,        \* history: how the last publish() call ended
    \* ---- SegmentMapper (src/data/mapper.py)
    mapping,            \* self._mapping of the mapper: code -> (number, multiplier, name)
    imported,           \* self._mapping of a second mapper, the target of import_mapping
    mop,                \* history: the last operation on the mappers
    upd,                \* history: the arguments of the last update_mapping
    \* ---- DartsLiveClient._notification_handler (src/ble/client.py)
    data_callback,      \* self._data_callback is set (not None)
    last_data,          \* history: the payload of the last notification
    calls,              \* history: the arguments the data callback was called
                        \* with during the last notification
    callback_failed,    \* history: the data callback raised in the last notification
    conlog,             \* history, per thread: what the supervisor did in the
                        \* connecting phase and in the connected phase of the
                        \* current pass of its outer loop
    \* ---- BLEManager(): the singleton and its callers
    singleton,          \* BLEManager._instance: 0 = None, k = the k-th object made
    created,            \* number of objects made by super().__new__
    initialized,        \* the instance has the attribute _initialized
    init_runs,          \* number of times the body of __init__ was entered
    queue_created,      \* self._processing_queue exists
    worker_started,     \* self._processing_thread.start() has returned
    ctor,               \* per caller: position in the call BLEManager()
    obtained,           \* per caller: the object __new__ returned to it
    \* ---- ZeroOneGame
    game,               \* the attributes of the game object
    result,             \* how the last handle_throw call ended: the 'type' of
                        \* the dict it returned, or "raised"
    last_throw,         \* the throw_data of the last handle_throw call
    ncalls,             \* number of handle_throw calls made
    turn_start,         \* history: the current player's score when the turn began
    stop_outcome,       \* history: how the last stop() call ended
    notif_outcome,      \* history: how the last _notification_handler call ended
    \* ---- DartDatabase
    dart_throws,        \* the rows of table dart_throws, in insertion order
    query               \* history: the last get_throws call and what it returned

ingest_vars == <<processing_queue, wpc, throw_data, seg_info, saved, published,
                 npush, nget, rejected, full_logged, push_outcome, failed>>
sup_vars    == <<client, loop, pc, attempt, cattempt, reconnect_attempt, cl,
                 spc, scanlog, conlog>>
flag_vars   == <<is_running, worker_running, nthreads, stop_requested, stopInMonitor,
                 stop_outcome>>
bus_vars    == <<subscribers, pub, invoked, registered, mutated, changes,
                 pub_outcome>>
\* The variables of the components explored under their own specifications.
mapper_vars == <<mapping, imported, mop, upd>>
notif_vars  == <<data_callback, last_data, calls, callback_failed, notif_outcome>>
storage_vars == <<dart_throws, query>>
singleton_vars == <<singleton, created, initialized, init_runs, queue_created,
                    worker_started, ctor, obtained>>
game_vars   == <<game, result, last_throw, ncalls, turn_start>>
more_vars   == <<singleton_vars, game_vars>>
comp_vars   == <<bus_vars, mapper_vars, notif_vars, storage_vars, more_vars>>
vars        == <<is_running, worker_running, processing_queue, client, loop,
                 nthreads, wpc, throw_data, seg_info, saved, published, pc, attempt,
                 cattempt, reconnect_attempt, cl, spc, npush, nget, rejected,
                 full_logged, push_outcome, failed, scanlog, stop_requested,
                 stopInMonitor, stopInWait, subscribers, pub, invoked,
                 registered, mutated, changes, pub_outcome, mapping,
                 imported, mop, upd, data_callback, last_data, calls,
                 callback_failed, notif_outcome, dart_throws, query,
                 stop_outcome, conlog, singleton, created, initialized,
                 init_runs, queue_created, worker_started, ctor, obtained,
                 game, result, last_throw, ncalls, turn_start>>

----------------------------------------------------------------------------
\* Bounds of the exploration.

\* Capacity of the ingestion queue (queue.Queue(maxsize=1000) in the source,
\* scaled down).
maxsize == 2
\* Total number of notifications delivered in one behaviour.
MaxPush == 3
\* Number of supervisor threads start_background may create in one behaviour.
MaxThreads == 2

\* Program constants.
scan_retry_max == 3
reconnect_retry_max == 3
PLAYER_CHANGE == 84          \* 0x54
DATA_PACKET_SIZE == 5
SEGMENT_BYTE_INDEX == 2

Threads == 1 .. MaxThreads
\* The positions in which a supervisor thread is suspended in a sleep.
WaitPositions == {"scan_delay", "connect_delay", "sleep5", "sleep3", "monitor"}
Nil == [segment_code |-> -1, timestamp |-> 0]
\* None as a segment code (what _on_throw_data(None) enqueues); a value
\* outside the byte range stands for it.
NoneCode == 256
\* The segment codes delivered: 0x28 (double 20), 0x54 (player change),
\* 0x00 (not calibrated) and None.
Codes == {40, PLAYER_CHANGE, 0, NoneCode}

Min(a, b) == IF a < b THEN a ELSE b

\* Longest notification payload delivered, in bytes.
MaxPayload == 6
\* The byte values of the payloads delivered.
PayloadBytes == {161, 40}
\* Longest subscription list of one event type.
MaxSubs == 2
\* Number of subscribe and unsubscribe calls made while one publish() call is
\* iterating.
MaxChanges == 1
\* The event types, the callbacks and the payloads handed to the EventBus.
EventTypes == {"throw", "player_change"}
Callbacks == {"h1", "h2"}
Payloads == {"d1", "d2"}
\* No publish() call has been made yet.
NoPublish == [pc |-> "idle", event_type |-> "", data |-> "", index |-> 0]

----------------------------------------------------------------------------
\* SegmentMapper (src/data/mapper.py).  A mapping table is a function from
\* the calibrated codes to <<base_number, multiplier, segment_name>>.  Text
\* (segment names, the keys of an exported table) is a sequence of
\* one-character strings and short words.

\* None as a base number, a multiplier or a score.
None == -1

HexDigits == <<"0", "1", "2", "3", "4", "5", "6", "7",
               "8", "9", "a", "b", "c", "d", "e", "f">>

\* The digits of n >= 0 written in the given base (format specs d and x).
RECURSIVE Format(_, _)
Format(n, base) ==
    IF n < base THEN <<HexDigits[n + 1]>>
    ELSE Format(n \div base, base) \o <<HexDigits[(n % base) + 1]>>

\* The format spec 02x: hexadecimal, zero-padded to two digits at least.
Hex02(n) == IF n < 16 THEN <<"0">> \o Format(n, 16) ELSE Format(n, 16)

\* int(text, base) for a text of digits.
RECURSIVE ParseInt(_, _)
ParseInt(text, base) ==
    IF text = <<>> THEN 0
    ELSE ParseInt(SubSeq(text, 1, Len(text) - 1), base) * base
         + (CHOOSE d \in 0 .. 15 : HexDigits[d + 1] = text[Len(text)])

board_numbers == <<20, 1, 18, 4, 13, 6, 10, 15, 2, 17, 3, 19, 7, 16, 8, 11,
                   14, 9, 12, 5>>
triple_numbers_1_19 == <<1, 18, 4, 13, 6, 10, 15, 2, 17, 3, 19, 7, 16, 8, 11,
                         14, 9, 12, 5>>
single_numbers_1_19 == <<1, 18, 4, 13, 6, 10, 15, 2, 17, 3, 19, 7, 16, 8, 11,
                         14, 9, 12, 5>>

\* The loop "code = first; for num in numbers: mapping[code] = (num,
\* multiplier, f"{word}{num}"); code += 1".
Area(first, numbers, multiplier, word) ==
    [code \in first .. first + Len(numbers) - 1 |->
        <<numbers[code - first + 1], multiplier,
          <<word>> \o Format(numbers[code - first + 1], 10)>>]

\* mapping[code] = value on a dict: m with the entry of code set to value.
MapSetKnown(m, code, value) ==
    IF code \in DOMAIN m THEN [m EXCEPT ![code] = value] ELSE m

\* mapping[code] = value on a dict: m with the entry of code set to value,
\* added when the code has none.
MapSet(m, code, value) ==
    [c \in DOMAIN m \cup {code} |-> IF c = code THEN value ELSE m[c]]

\* _create_default_mapping: triples from 0x14, triple 20 at 0x27, doubles
\* from 0x28, singles from 0x3e, single 20 at 0x54, the bulls at 0x51, 0x52.
DefaultMapping ==
    LET triples == Area(20, triple_numbers_1_19, 3, "triple")
        t20     == MapSet(triples, 39, <<20, 3, <<"triple", "2", "0">>>>)
        doubles == Area(40, board_numbers, 2, "double")
        td      == [c \in DOMAIN t20 \cup DOMAIN doubles |->
                      IF c \in DOMAIN doubles THEN doubles[c] ELSE t20[c]]
        singles == Area(62, single_numbers_1_19, 1, "single")
        tds     == [c \in DOMAIN td \cup DOMAIN singles |->
                      IF c \in DOMAIN singles THEN singles[c] ELSE td[c]]
        s20     == MapSet(tds, 84, <<20, 1, <<"single", "2", "0">>>>)
        outer   == MapSet(s20, 81, <<25, 1, <<"outer bull">>>>)
    IN  MapSet(outer, 82, <<25, 2, <<"inner bull">>>>)

\* The name of an unknown code, written without the code.
UnknownNameBare(segment_code) == <<"unknown(", "0", "x", ")">>

\* The name get_segment_info gives an unknown code: f"unknown(0x{code:02x})".
UnknownName(segment_code) ==
    <<"unknown(", "0", "x">> \o Hex02(segment_code) \o <<")">>

\* get_segment_info(segment_code), for an integer code.
GetSegmentInfo(m, segment_code) ==
    IF segment_code \in DOMAIN m THEN m[segment_code]
    ELSE <<None, None, UnknownName(segment_code)>>

\* get_score without the multiplier.
GetScoreBase(m, segment_code) ==
    LET info == GetSegmentInfo(m, segment_code) IN
    IF info[1] = None \/ info[2] = None THEN None ELSE info[1]

\* get_score(segment_code), for an integer code.
GetScore(m, segment_code) ==
    LET info == GetSegmentInfo(m, segment_code) IN
    IF info[1] = None \/ info[2] = None THEN None ELSE info[1] * info[2]

\* A key of the exported table written in decimal behind the 0x prefix.
ExportKeyDecimal(code) == <<"0", "x">> \o Format(code, 10)

\* A key of the exported table: f"0x{code:02x}".
ExportKey(code) == <<"0", "x">> \o Hex02(code)

\* export_mapping(): the table as a dict from keys to dicts.
ExportMapping(m) ==
    [key \in {ExportKey(code) : code \in DOMAIN m} |->
        LET code == CHOOSE c \in DOMAIN m : ExportKey(c) = key IN
        [base_number |-> m[code][1], multiplier |-> m[code][2],
         segment_name |-> m[code][3]]]

\* int(code_str, 16) if code_str.startswith('0x') else int(code_str)
ParseKey(code_str) ==
    IF Len(code_str) >= 2 /\ SubSeq(code_str, 1, 2) = <<"0", "x">>
    THEN ParseInt(SubSeq(code_str, 3, Len(code_str)), 16)
    ELSE ParseInt(code_str, 10)

\* import_mapping(mapping_dict) on a mapper whose table is m: every item of
\* the dict is written into the table (the keys of an exported table denote
\* distinct codes).
ImportMapping(m, mapping_dict) ==
    LET codes == {ParseKey(key) : key \in DOMAIN mapping_dict} IN
    [c \in DOMAIN m \cup codes |->
        IF c \in codes
        THEN LET key == CHOOSE k \in DOMAIN mapping_dict : ParseKey(k) = c IN
             <<mapping_dict[key].base_number, mapping_dict[key].multiplier,
               mapping_dict[key].segment_name>>
        ELSE m[c]]

\* Most players of a game, most handle_throw calls made on it.
MaxPlayers == 2
MaxCalls == 5
\* ZeroOneGame: the smallest of VALID_STARTING_SCORES, the finish types,
\* the throws of a turn.
starting_score == 301
VALID_FINISH_TYPES == {"straight", "double", "master"}
max_throws_per_round == 3
\* The throw_data dicts handle_throw is called with, reduced to segment_code,
\* score and multiplier: a large single, single 1, double 1, triple 1, the
\* throw event of a code that is not calibrated (score and multiplier None),
\* and the player-change code 0x54 (single 20 in the default table).
NoThrow == [segment_code |-> -1, score |-> 0, multiplier |-> 0]
IntThrows ==
    {[segment_code |-> 1, score |-> 298, multiplier |-> 1],
     [segment_code |-> 60, score |-> 1, multiplier |-> 1],
     [segment_code |-> 41, score |-> 2, multiplier |-> 2],
     [segment_code |-> 20, score |-> 3, multiplier |-> 3],
     [segment_code |-> 84, score |-> 20, multiplier |-> 1]}
GameThrows ==
    IntThrows \cup {[segment_code |-> 0, score |-> None, multiplier |-> None]}
\* No game has been created.
NoGame ==
    [state |-> "none", winner |-> None, current_player_index |-> 0,
     is_current |-> <<>>, finish_type |-> "none", scores |-> <<>>,
     round_count |-> 0, current_round_throws |-> <<>>, history |-> <<>>]
\* BaseGame.__init__ and ZeroOneGame.__init__ for n players (ids 0 .. n-1, as
\* GameStateManager.create_game numbers them).
NewGame(n, finish_type) ==
    [state |-> "waiting", winner |-> None, current_player_index |-> 0,
     is_current |-> [i \in 0 .. n - 1 |-> i = 0],
     finish_type |-> finish_type,
     scores |-> [i \in 0 .. n - 1 |-> starting_score],
     round_count |-> 1, current_round_throws |-> <<>>, history |-> <<>>]
\* Number of threads that call BLEManager().
MaxCallers == 3
Callers == 1 .. MaxCallers
\* Most rows the dart_throws table holds.
MaxRows == 2
\* The latest timestamp of a saved throw.
MaxTime == 2
\* The device addresses of the saved throws.
Addresses == {"AA:AA:AA:AA:AA:AA", "BB:BB:BB:BB:BB:BB"}
\* A device_address argument that is None or empty (both false in `if`).
NoAddress == ""
\* The limit arguments of get_throws: None, 0, and positive limits.
Limits == {None} \cup (0 .. MaxRows)
\* No get_throws call has been made since the last insert.
NoQuery == [limit |-> None, device_address |-> NoAddress, throws |-> <<>>,
            called |-> FALSE]
\* The worker's decoding variables while it holds no sample.
NoInfo == <<None, None, <<>>>>
\* No update_mapping call has been made yet.
NoUpdate == [code |-> -1, value |-> <<None, None, <<>>>>]
\* The codes update_mapping is called with: 0x00 and 0xff (not calibrated),
\* 0x28 (double 20) and 0x54.
UpdateCodes == {0, 255, 40, 84}
\* The entries update_mapping is called with.
UpdateValues == {<<20, 3, <<"test triple 20">>>>,
                 <<20, None, <<"test no multiplier">>>>,
                 <<None, None, <<"test nothing">>>>}

----------------------------------------------------------------------------
\* Initial state: BLEManager.__init__ has run, the worker thread is started,
\* no supervisor thread exists.

NewClient == [flag |-> FALSE, link |-> FALSE, notify |-> FALSE]

Init ==
    /\ is_running = FALSE
    /\ worker_running = TRUE
    /\ processing_queue = <<>>
    /\ client = 0
    /\ loop = 0
    /\ nthreads = 0
    /\ wpc = "check"
    /\ throw_data = Nil
    /\ seg_info = NoInfo
    /\ saved = <<>>
    /\ published = <<>>
    /\ pc = [t \in Threads |-> "idle"]
    /\ attempt = [t \in Threads |-> 0]
    /\ cattempt = [t \in Threads |-> 0]
    /\ reconnect_attempt = [t \in Threads |-> 0]
    /\ cl = [t \in Threads |-> NewClient]
    /\ spc = 0
    /\ npush = 0
    /\ nget = 0
    /\ rejected = {}
    /\ full_logged = 0
    /\ push_outcome = "none"
    /\ failed = {}
    /\ scanlog = [t \in Threads |-> <<>>]
    /\ conlog = [t \in Threads |-> <<>>]
    /\ stop_requested = FALSE
    /\ stop_outcome = "none"
    /\ stopInMonitor = [t \in Threads |-> FALSE]
    /\ stopInWait = [t \in Threads |-> FALSE]
    /\ subscribers = <<>>
    /\ pub = NoPublish
    /\ invoked = <<>>
    /\ registered = <<>>
    /\ mutated = FALSE
    /\ changes = 0
    /\ pub_outcome = "none"
    /\ mapping = DefaultMapping
    /\ imported = DefaultMapping
    /\ mop = "none"
    /\ upd = NoUpdate
    /\ data_callback = FALSE
    /\ last_data = <<>>
    /\ calls = <<>>
    /\ callback_failed = FALSE
    /\ notif_outcome = "none"
    /\ dart_throws = <<>>
    /\ query = NoQuery
    /\ singleton = 0
    /\ created = 0
    /\ initialized = FALSE
    /\ init_runs = 0
    /\ queue_created = FALSE
    /\ worker_started = FALSE
    /\ ctor = [c \in Callers |-> "idle"]
    /\ obtained = [c \in Callers |-> 0]
    /\ game = NoGame
    /\ result = "none"
    /\ last_throw = NoThrow
    /\ ncalls = 0
    /\ turn_start = starting_score

----------------------------------------------------------------------------
\* Ingestion: BLEManager._on_throw_data.
\* put_nowait raises queue.Full on a full queue (caught, logged); the debug
\* line formats segment_code with :02x, which raises TypeError for None
\* after the sample was queued (caught by the generic handler, logged).

\* A queue that refuses one item too late.
QueueFullLate(q) == Len(q) > maxsize

\* queue.Queue.put_nowait raises queue.Full when the queue holds maxsize items.
QueueFull(q) == Len(q) >= maxsize

\* A queue that hands out the newest item first.
PutNowaitFront(q, item) == <<item>> \o q

\* queue.Queue is first in, first out: put_nowait appends, get takes the head.
PutNowait(q, item) == Append(q, item)

\* How the try statement of _on_throw_data ends: "full" (queue.Full caught),
\* "error" (any other exception caught), "queued" (no exception).  Every
\* exception is caught, so the call never ends "raised".
PushOutcome(full, segment_code) ==
    IF full THEN "full"
    ELSE IF segment_code = NoneCode THEN "error"
    ELSE "queued"

OnThrowData(segment_code) ==
    /\ npush < MaxPush
    /\ npush' = npush + 1
    /\ LET item == [segment_code |-> segment_code, timestamp |-> npush + 1] IN
       IF QueueFull(processing_queue)
       THEN /\ processing_queue' = processing_queue
            /\ rejected' = rejected \cup {npush + 1}
            /\ full_logged' = full_logged + 1
            /\ push_outcome' = PushOutcome(TRUE, segment_code)
       ELSE /\ processing_queue' = PutNowait(processing_queue, item)
            /\ rejected' = rejected
            /\ full_logged' = full_logged
            /\ push_outcome' = PushOutcome(FALSE, segment_code)
    /\ UNCHANGED <<wpc, throw_data, seg_info, saved, published, nget, failed>>
    /\ UNCHANGED <<sup_vars, comp_vars>>
    /\ UNCHANGED <<flag_vars, stopInWait>>

\* BLEManager keeps no count of the dropped samples: __init__ creates no such
\* attribute and the queue.Full handler only writes a log line.
drop_counter == 0

----------------------------------------------------------------------------
\* The worker thread: BLEManager._process_throws_worker.

\* while self._worker_running:
WorkerCheck ==
    /\ wpc = "check"
    /\ wpc' = IF worker_running THEN "get" ELSE "stopped"
    /\ UNCHANGED <<processing_queue, throw_data, seg_info, saved, published,
                   npush, nget, rejected, full_logged, push_outcome, failed>>
    /\ UNCHANGED <<sup_vars, comp_vars>>
    /\ UNCHANGED <<flag_vars, stopInWait>>

\* A decoding that looks the code up with self._mapping[segment_code].
DecodeRaisesUnknown(segment_code) == segment_code \notin DOMAIN DefaultMapping

\* mapper.get_segment_info / get_score raise on a code that is no integer
\* (the unknown-code branch formats it with :02x).
DecodeRaises(segment_code) == segment_code = NoneCode

\* A sample whose processing raised, with the call that raised.
Failure(item, error) ==
    [segment_code |-> item.segment_code, timestamp |-> item.timestamp,
     error |-> error]

\* A worker whose except clause is outside the while loop.
AfterErrorStops == "stopped"

\* What the worker does after a processing error (the except clause of the
\* loop body): log and go on with the loop.
AfterError == "check"

\* self._processing_queue.get(timeout=1.0) returns a sample and the worker
\* reads its fields and calls self.mapper.get_segment_info (lines 237-248);
\* when that call raises, the except clause of the loop body is run.
WorkerGet ==
    /\ wpc = "get"
    /\ processing_queue # <<>>
    /\ processing_queue' = Tail(processing_queue)
    /\ nget' = nget + 1
    /\ LET item == Head(processing_queue) IN
       IF DecodeRaises(item.segment_code)
       THEN /\ failed' = failed \cup {Failure(item, "decode")}
            /\ wpc' = AfterError
            /\ UNCHANGED <<throw_data, seg_info>>
       ELSE /\ throw_data' = item
            /\ seg_info' = GetSegmentInfo(mapping, item.segment_code)
            /\ wpc' = "process"
            /\ UNCHANGED failed
    /\ UNCHANGED <<saved, published, npush, rejected, full_logged,
                   push_outcome>>
    /\ UNCHANGED <<sup_vars, comp_vars>>
    /\ UNCHANGED <<flag_vars, stopInWait>>

\* get(timeout=1.0) raises queue.Empty: continue.
WorkerTimeout ==
    /\ wpc = "get"
    /\ processing_queue = <<>>
    /\ wpc' = "check"
    /\ UNCHANGED <<processing_queue, throw_data, seg_info, saved, published,
                   npush, nget, rejected, full_logged, push_outcome, failed>>
    /\ UNCHANGED <<sup_vars, comp_vars>>
    /\ UNCHANGED <<flag_vars, stopInWait>>

\* The DartThrow built from a sample: base_number and multiplier as read by
\* get_segment_info at line 248, score as self.mapper.get_score returns it
\* now (line 249).
Row(item) ==
    [segment_code |-> item.segment_code, timestamp |-> item.timestamp,
     base_number |-> seg_info[1], multiplier |-> seg_info[2],
     score |-> GetScore(mapping, item.segment_code)]
\* The payload of a player_change event.
Event(type, item) == [type |-> type, timestamp |-> item.timestamp]
\* The payload of a throw event: throw.to_dict().
ThrowEvent(row) ==
    [type |-> "throw", timestamp |-> row.timestamp,
     segment_code |-> row.segment_code, base_number |-> row.base_number,
     multiplier |-> row.multiplier, score |-> row.score]

\* A worker without the player-change branch.
IsPlayerChangeNever(segment_code) == FALSE

\* if segment_code == 0x54
IsPlayerChange(segment_code) == segment_code = PLAYER_CHANGE

\* The rest of the loop body for the sample held in throw_data, from
\* self.mapper.get_score (line 249) on; save_ok is whether
\* database.save_throw returns (TRUE) or raises (FALSE).
WorkerProcess(save_ok) ==
    /\ wpc = "process"
    /\ LET item == throw_data IN
       IF IsPlayerChange(item.segment_code)
       THEN /\ published' = Append(published, Event("player_change", item))
            /\ IF save_ok
               THEN /\ saved' = Append(saved, Row(item))
                    /\ failed' = failed
                    /\ wpc' = "check"
               ELSE /\ saved' = saved
                    /\ failed' = failed \cup {Failure(item, "save")}
                    /\ wpc' = AfterError
       ELSE IF save_ok
       THEN /\ saved' = Append(saved, Row(item))
            /\ published' = Append(published, ThrowEvent(Row(item)))
            /\ failed' = failed
            /\ wpc' = "check"
       ELSE /\ failed' = failed \cup {Failure(item, "save")}
            /\ wpc' = AfterError
            /\ UNCHANGED <<saved, published>>
    /\ throw_data' = Nil
    /\ seg_info' = NoInfo
    /\ UNCHANGED <<processing_queue, npush, nget, rejected, full_logged,
                   push_outcome>>
    /\ UNCHANGED <<sup_vars, comp_vars>>
    /\ UNCHANGED <<flag_vars, stopInWait>>

----------------------------------------------------------------------------
\* DartsLiveClient, as operators on the client objects f = cl.

\* DartsLiveClient.is_connected
IsConnected(f, c) == f[c].flag /\ f[c].link

\* DartsLiveClient.start_notify: nothing unless connected.
StartNotify(f, c) ==
    IF IsConnected(f, c) THEN [f EXCEPT ![c].notify = TRUE] ELSE f

\* DartsLiveClient.stop_notify: nothing unless connected.
StopNotify(f, c) ==
    IF IsConnected(f, c) THEN [f EXCEPT ![c].notify = FALSE] ELSE f

\* DartsLiveClient.disconnect: acts only on a live link.  ok is whether
\* BleakClient.disconnect returns (the link is down) or raises (the error is
\* logged, the link is as it was); `finally` clears _is_connected either way.
Disconnect(f, c, ok) ==
    IF f[c].link
    THEN IF ok
         THEN [f EXCEPT ![c] = [flag |-> FALSE, link |-> FALSE, notify |-> FALSE]]
         ELSE [f EXCEPT ![c].flag = FALSE]
    ELSE f

\* DartsLiveClient.connect: a new BleakClient; ok is whether the link came up.
ConnectClient(f, c, ok) ==
    IF ok THEN [f EXCEPT ![c].link = TRUE, ![c].flag = TRUE]
          ELSE [f EXCEPT ![c].link = FALSE, ![c].notify = FALSE]

\* The peripheral goes away: the link of client c drops by itself.
LinkLost(c) ==
    /\ cl[c].link
    /\ cl' = [cl EXCEPT ![c].link = FALSE, ![c].notify = FALSE]
    /\ UNCHANGED <<client, loop, pc, attempt, cattempt, reconnect_attempt,
                   spc, scanlog, conlog>>
    /\ UNCHANGED <<ingest_vars, comp_vars>>
    /\ UNCHANGED <<flag_vars, stopInWait>>

----------------------------------------------------------------------------
\* start_background and stop.

\* The event loop of thread t is running (run_until_complete has not returned).
LoopRunning(t) == pc[t] \notin {"idle", "run", "done"}

\* start_background: a no-op (a stuttering step) while is_running; otherwise
\* sets the flag and creates the next thread.
StartBackground ==
    /\ ~is_running
    /\ nthreads < MaxThreads
    /\ is_running' = TRUE
    /\ nthreads' = nthreads + 1
    /\ pc' = [pc EXCEPT ![nthreads + 1] = "run"]
    /\ stop_requested' = FALSE
    /\ stop_outcome' = "none"
    /\ stopInMonitor' = [t \in Threads |-> FALSE]
    /\ stopInWait' = [t \in Threads |-> FALSE]
    /\ UNCHANGED <<worker_running, client, loop, attempt, cattempt,
                   reconnect_attempt, cl, spc, scanlog, conlog>>
    /\ UNCHANGED <<ingest_vars, comp_vars>>

\* stop, up to the test of line 311: clears both flags; the cleanup is
\* handed to the loop only if there is a client and a running loop, and
\* without it stop returns.  (The final join of the worker thread waits at
\* most 5 s and changes nothing.)
Stop ==
    /\ spc = 0
    /\ is_running' = FALSE
    /\ worker_running' = FALSE
    /\ stop_requested' = TRUE
    /\ stopInMonitor' = [t \in Threads |-> pc[t] = "monitor"]
    /\ stopInWait' = [t \in Threads |-> pc[t] \in WaitPositions]
    /\ spc' = IF client # 0 /\ loop # 0 /\ LoopRunning(loop) THEN loop ELSE 0
    /\ stop_outcome' = IF client # 0 /\ loop # 0 /\ LoopRunning(loop)
                       THEN "none" ELSE "returned"
    /\ conlog' = [t \in Threads |->
                     IF pc[t] = "monitor" /\ \A i \in DOMAIN conlog[t] :
                                                conlog[t][i] # "stop"
                     THEN Append(conlog[t], "stop") ELSE conlog[t]]
    /\ UNCHANGED <<nthreads, client, loop, pc, attempt, cattempt,
                   reconnect_attempt, cl, scanlog>>
    /\ UNCHANGED <<ingest_vars, comp_vars>>

\* asyncio.run_coroutine_threadsafe(cleanup(), self._loop) at line 325,
\* outside the try block: on a loop that was closed since the test of line
\* 311 it raises RuntimeError, which leaves stop(); otherwise the failures
\* of the cleanup and of future.result are caught and stop returns.
Schedule(running) == IF running THEN "returned" ELSE "raised"

\* stop, from line 325 on: the cleanup coroutine runs on the loop it was
\* handed to, between two steps of that loop's thread (stop_notify, then
\* disconnect, on self.client).
StopCleanup(ok) ==
    /\ spc # 0
    /\ cl' = IF LoopRunning(spc) /\ client # 0
             THEN Disconnect(StopNotify(cl, client), client, ok)
             ELSE cl
    /\ stop_outcome' = Schedule(LoopRunning(spc))
    /\ spc' = 0
    /\ UNCHANGED <<client, loop, pc, attempt, cattempt, reconnect_attempt,
                   scanlog, conlog>>
    /\ UNCHANGED <<ingest_vars, comp_vars>>
    /\ UNCHANGED <<is_running, worker_running, nthreads, stop_requested,
                   stopInMonitor, stopInWait>>

----------------------------------------------------------------------------
\* The supervisor thread t: _run_ble_loop and _connect_and_listen.
\* A position names the await the coroutine is suspended in:
\*   run               thread created, _run_ble_loop not yet entered
\*   scan_once         scan_with_retry: a scan pass (BleakScanner.discover)
\*   scan_delay        scan_with_retry: asyncio.sleep(retry_delay)
\*   sleep5            asyncio.sleep(5) after device_not_found / connection_failed
\*   connect           connect_with_retry: a connection attempt
\*   connect_delay     connect_with_retry: asyncio.sleep(reconnect_delay)
\*   start_notify      await self.client.start_notify()
\*   monitor           the monitoring loop (asyncio.sleep(1) between polls)
\*   cleanup_stop_notify, cleanup_disconnect   the cleanup after the loop
\*   sleep3            asyncio.sleep(3) before the reconnection
\*   done              the coroutine returned, the loop is closed
\* The handler of unexpected errors (except Exception, lines 192-203): the
\* scanner and the client methods awaited in the try block catch their own
\* exceptions; the probe self.client.is_connected of the monitoring loop
\* reads BleakClient.is_connected unguarded, so the handler is entered from
\* the monitoring loop (MonitorError).

\* A step of thread t ends the wait the thread was suspended in.
EndWait(t) == stopInWait' = [stopInWait EXCEPT ![t] = FALSE]

\* while self.is_running or reconnect_attempt == 0
WhileCondition(running, ra) == running \/ ra = 0

\* A scanner that gives up one pass early.
ScanHasNextShort(a) == a < scan_retry_max - 1

\* scan_with_retry: if attempt < self.retry_max (another pass follows)
ScanHasNext(a) == a < scan_retry_max

\* A client that gives up one attempt early.
ConnectHasNextShort(a) == a < reconnect_retry_max - 1

\* connect_with_retry: if attempt < self.reconnect_retry_max
ConnectHasNext(a) == a < reconnect_retry_max

\* if not self.is_running: break  (after an error event) / else sleep(5)
AfterErrorEvent(running) == IF running THEN "sleep5" ELSE "done"

\* The top of the outer loop, reached with reconnect counter ra: either the
\* next scanning phase begins or the coroutine returns.
LoopTop(t, ra) ==
    IF WhileCondition(is_running, ra)
    THEN /\ pc' = [pc EXCEPT ![t] = "scan_once"]
         /\ attempt' = [attempt EXCEPT ![t] = 1]
         /\ scanlog' = [scanlog EXCEPT ![t] = <<>>]
         /\ conlog' = [conlog EXCEPT ![t] = <<>>]
    ELSE /\ pc' = [pc EXCEPT ![t] = "done"]
         /\ UNCHANGED <<attempt, scanlog, conlog>>

\* _run_ble_loop: install the new event loop, enter the coroutine.
Run(t) ==
    /\ pc[t] = "run"
    /\ loop' = t
    /\ reconnect_attempt' = [reconnect_attempt EXCEPT ![t] = 0]
    /\ LoopTop(t, 0)
    /\ UNCHANGED <<client, cattempt, cl, spc>>
    /\ UNCHANGED <<ingest_vars, comp_vars>>
    /\ UNCHANGED flag_vars
    /\ EndWait(t)

\* A scan pass ends.  found: scan_with_retry returns the device, the
\* supervisor makes the client and calls connect_with_retry.  Not found: the
\* retry delay, or after the last pass the device_not_found event.
ScanOnce(t, found) ==
    /\ pc[t] = "scan_once"
    /\ IF found
       THEN /\ scanlog' = [scanlog EXCEPT ![t] = Append(@, "found")]
            /\ client' = t
            /\ cl' = [cl EXCEPT ![t] = NewClient]
            /\ cattempt' = [cattempt EXCEPT ![t] = 1]
            /\ attempt' = [attempt EXCEPT ![t] = 0]
            /\ conlog' = [conlog EXCEPT ![t] = <<"set_data_callback">>]
            /\ pc' = [pc EXCEPT ![t] = "connect"]
       ELSE /\ UNCHANGED <<client, cl, cattempt, conlog>>
            /\ IF ScanHasNext(attempt[t])
               THEN /\ scanlog' = [scanlog EXCEPT ![t] = Append(@, "pass")]
                    /\ pc' = [pc EXCEPT ![t] = "scan_delay"]
                    /\ UNCHANGED attempt
               ELSE /\ scanlog' = [scanlog EXCEPT ![t] =
                                      @ \o <<"pass", "device_not_found">>]
                    /\ pc' = [pc EXCEPT ![t] = AfterErrorEvent(is_running)]
                    /\ attempt' = [attempt EXCEPT ![t] = 0]
    /\ UNCHANGED <<loop, reconnect_attempt, spc>>
    /\ UNCHANGED <<ingest_vars, comp_vars>>
    /\ UNCHANGED flag_vars
    /\ EndWait(t)

\* scan_with_retry: the retry delay is over, the next pass begins.
ScanDelay(t) ==
    /\ pc[t] = "scan_delay"
    /\ attempt' = [attempt EXCEPT ![t] = @ + 1]
    /\ scanlog' = [scanlog EXCEPT ![t] = Append(@, "delay")]
    /\ pc' = [pc EXCEPT ![t] = "scan_once"]
    /\ UNCHANGED <<client, loop, cattempt, reconnect_attempt, cl, spc, conlog>>
    /\ UNCHANGED <<ingest_vars, comp_vars>>
    /\ UNCHANGED flag_vars
    /\ EndWait(t)

\* asyncio.sleep(5) is over: continue.
Sleep5(t) ==
    /\ pc[t] = "sleep5"
    /\ LoopTop(t, reconnect_attempt[t])
    /\ UNCHANGED <<client, loop, cattempt, reconnect_attempt, cl, spc>>
    /\ UNCHANGED <<ingest_vars, comp_vars>>
    /\ UNCHANGED flag_vars
    /\ EndWait(t)

\* A connection attempt of thread t's client ends.
Connect(t, ok) ==
    /\ pc[t] = "connect"
    /\ cl' = ConnectClient(cl, t, ok)
    /\ pc' = [pc EXCEPT ![t] =
                IF ok THEN "start_notify"
                ELSE IF ConnectHasNext(cattempt[t]) THEN "connect_delay"
                ELSE AfterErrorEvent(is_running)]
    /\ cattempt' = [cattempt EXCEPT ![t] =
                      IF ~ok /\ ConnectHasNext(@) THEN @ ELSE 0]
    /\ scanlog' = [scanlog EXCEPT ![t] = <<>>]
    /\ conlog' = [conlog EXCEPT ![t] =
                    IF ok THEN @ \o <<"connect", "ble_connected">>
                    ELSE IF ConnectHasNext(cattempt[t]) THEN Append(@, "connect")
                    ELSE @ \o <<"connect", "connection_failed">>]
    /\ UNCHANGED <<client, loop, attempt, reconnect_attempt, spc>>
    /\ UNCHANGED <<ingest_vars, comp_vars>>
    /\ UNCHANGED flag_vars
    /\ EndWait(t)

\* connect_with_retry: the delay is over, the next attempt begins.
ConnectDelay(t) ==
    /\ pc[t] = "connect_delay"
    /\ cattempt' = [cattempt EXCEPT ![t] = @ + 1]
    /\ pc' = [pc EXCEPT ![t] = "connect"]
    /\ conlog' = [conlog EXCEPT ![t] = Append(@, "delay")]
    /\ UNCHANGED <<client, loop, attempt, reconnect_attempt, cl, spc, scanlog>>
    /\ UNCHANGED <<ingest_vars, comp_vars>>
    /\ UNCHANGED flag_vars
    /\ EndWait(t)

\* The value self.is_running has after line 151 (self.is_running = True).
RunningAfterConnect(running) == TRUE

\* await self.client.start_notify(); self.is_running = True;
\* reconnect_attempt = 0; the monitoring loop is entered.
StartNotifyStep(t) ==
    /\ pc[t] = "start_notify"
    /\ cl' = StartNotify(cl, client)
    /\ is_running' = RunningAfterConnect(is_running)
    /\ reconnect_attempt' = [reconnect_attempt EXCEPT ![t] = 0]
    /\ pc' = [pc EXCEPT ![t] = "monitor"]
    /\ conlog' = [conlog EXCEPT ![t] = <<"ble_connected", "start_notify">>]
    /\ UNCHANGED <<client, loop, attempt, cattempt, spc, scanlog>>
    /\ UNCHANGED <<ingest_vars, comp_vars>>
    /\ UNCHANGED <<worker_running, nthreads, stop_requested, stopInMonitor,
                   stop_outcome>>
    /\ EndWait(t)

\* while self.is_running: if not self.client.is_connected: ... break
\* TRUE when the monitoring loop is left at this poll.
MonitorLeaves(running, connected) == ~running \/ ~connected

\* One poll of the monitoring loop that leaves it (a poll that stays is
\* asyncio.sleep(1) and changes nothing).
Monitor(t) ==
    /\ pc[t] = "monitor"
    /\ MonitorLeaves(is_running, IsConnected(cl, client))
    /\ pc' = [pc EXCEPT ![t] = "cleanup_stop_notify"]
    /\ conlog' = [conlog EXCEPT ![t] =
                    IF is_running THEN Append(@, "connection_lost") ELSE @]
    /\ UNCHANGED <<client, loop, attempt, cattempt, reconnect_attempt, cl,
                   spc, scanlog>>
    /\ UNCHANGED <<ingest_vars, comp_vars>>
    /\ UNCHANGED flag_vars
    /\ EndWait(t)

\* A poll of the monitoring loop in which the probe raises: the handler
\* publishes ble_error{unexpected_error}, then `if not self.is_running:
\* break`, else asyncio.sleep(5) and the next pass of the outer loop.  The
\* cleanup of lines 168-180 is not on this path.
MonitorError(t) ==
    /\ pc[t] = "monitor"
    /\ is_running
    /\ pc' = [pc EXCEPT ![t] = AfterErrorEvent(is_running)]
    /\ conlog' = [conlog EXCEPT ![t] = Append(@, "unexpected_error")]
    /\ UNCHANGED <<client, loop, attempt, cattempt, reconnect_attempt, cl,
                   spc, scanlog>>
    /\ UNCHANGED <<ingest_vars, comp_vars>>
    /\ UNCHANGED flag_vars
    /\ EndWait(t)

\* Cleanup: await self.client.stop_notify()
CleanupStopNotify(t) ==
    /\ pc[t] = "cleanup_stop_notify"
    /\ cl' = StopNotify(cl, client)
    /\ pc' = [pc EXCEPT ![t] = "cleanup_disconnect"]
    /\ conlog' = [conlog EXCEPT ![t] = Append(@, "stop_notify")]
    /\ UNCHANGED <<client, loop, attempt, cattempt, reconnect_attempt, spc,
                   scanlog>>
    /\ UNCHANGED <<ingest_vars, comp_vars>>
    /\ UNCHANGED flag_vars
    /\ EndWait(t)

\* Cleanup: await self.client.disconnect(); then
\* if not self.is_running: break, else reconnect_attempt += 1 and sleep(3).
CleanupDisconnect(t, ok) ==
    /\ pc[t] = "cleanup_disconnect"
    /\ cl' = Disconnect(cl, client, ok)
    /\ conlog' = [conlog EXCEPT ![t] = Append(@, "disconnect")]
    /\ IF ~is_running
       THEN /\ pc' = [pc EXCEPT ![t] = "done"]
            /\ UNCHANGED reconnect_attempt
       ELSE /\ pc' = [pc EXCEPT ![t] = "sleep3"]
            /\ reconnect_attempt' = [reconnect_attempt EXCEPT ![t] = @ + 1]
    /\ UNCHANGED <<client, loop, attempt, cattempt, spc, scanlog>>
    /\ UNCHANGED <<ingest_vars, comp_vars>>
    /\ UNCHANGED flag_vars
    /\ EndWait(t)

\* asyncio.sleep(3) is over: back to the top of the outer loop.
Sleep3(t) ==
    /\ pc[t] = "sleep3"
    /\ LoopTop(t, reconnect_attempt[t])
    /\ UNCHANGED <<client, loop, cattempt, reconnect_attempt, cl, spc>>
    /\ UNCHANGED <<ingest_vars, comp_vars>>
    /\ UNCHANGED flag_vars
    /\ EndWait(t)

ThreadStep(t) ==
    \/ Run(t)
    \/ \E found \in BOOLEAN : ScanOnce(t, found)
    \/ ScanDelay(t)
    \/ Sleep5(t)
    \/ \E ok \in BOOLEAN : Connect(t, ok)
    \/ ConnectDelay(t)
    \/ StartNotifyStep(t)
    \/ Monitor(t)
    \/ MonitorError(t)
    \/ CleanupStopNotify(t)
    \/ \E ok \in BOOLEAN : CleanupDisconnect(t, ok)
    \/ Sleep3(t)

----------------------------------------------------------------------------
\* DartsLiveClient._notification_handler (src/ble/client.py), the function
\* bleak calls with every notification of the UART characteristic.

\* The payloads delivered: byte sequences of every length up to MaxPayload.
NotifyPayloads == UNION {[1 .. n -> PayloadBytes] : n \in 0 .. MaxPayload}

\* set_data_callback(callback), with a callable or with None; it ends the
\* observation of the notification before.
SetDataCallback(callback) ==
    /\ data_callback' = callback
    /\ last_data' = <<>>
    /\ calls' = <<>>
    /\ callback_failed' = FALSE
    /\ notif_outcome' = "none"
    /\ UNCHANGED <<bus_vars, mapper_vars, storage_vars, more_vars>>
    /\ UNCHANGED <<ingest_vars, sup_vars, flag_vars, stopInWait>>

\* The segment byte read one position early.
SegmentByteBefore(data) == data[SEGMENT_BYTE_INDEX]

\* data[SEGMENT_BYTE_INDEX], Python indexing from 0.
SegmentByte(data) == data[SEGMENT_BYTE_INDEX + 1]

\* A handler whose callback call is outside the try block.
HandlerOutcomeUnguarded(raised) == IF raised THEN "raised" ELSE "returned"

\* How _notification_handler ends when something in its body raised or not:
\* the body is one try block with except Exception, which logs.
HandlerOutcome(raised) == "returned"

\* _notification_handler(sender, data); callback_raises is whether the data
\* callback, when it is called, raises.
NotificationHandler(data, callback_raises) ==
    /\ last_data' = data
    /\ IF Len(data) # DATA_PACKET_SIZE
       THEN /\ calls' = <<>>
            /\ callback_failed' = FALSE
            /\ notif_outcome' = HandlerOutcome(FALSE)
       ELSE IF data_callback
       THEN /\ calls' = <<SegmentByte(data)>>
            /\ callback_failed' = callback_raises
            /\ notif_outcome' = HandlerOutcome(callback_raises)
       ELSE /\ calls' = <<>>
            /\ callback_failed' = FALSE
            /\ notif_outcome' = HandlerOutcome(FALSE)
    /\ UNCHANGED data_callback
    /\ UNCHANGED <<bus_vars, mapper_vars, storage_vars, more_vars>>
    /\ UNCHANGED <<ingest_vars, sup_vars, flag_vars, stopInWait>>

----------------------------------------------------------------------------
\* SegmentMapper operations.

\* update_mapping(segment_code, base_number, multiplier, segment_name); a
\* second mapper made before is dropped.
UpdateMapping(segment_code, value) ==
    /\ mapping' = MapSet(mapping, segment_code, value)
    /\ upd' = [code |-> segment_code, value |-> value]
    /\ mop' = "update"
    /\ imported' = DefaultMapping
    /\ UNCHANGED <<bus_vars, notif_vars, storage_vars, more_vars>>
    /\ UNCHANGED <<ingest_vars, sup_vars, flag_vars, stopInWait>>

\* mapper2 = SegmentMapper(); mapper2.import_mapping(mapper.export_mapping())
RoundTrip ==
    /\ imported' = ImportMapping(DefaultMapping, ExportMapping(mapping))
    /\ mop' = "import"
    /\ UNCHANGED <<mapping, upd>>
    /\ UNCHANGED <<bus_vars, notif_vars, storage_vars, more_vars>>
    /\ UNCHANGED <<ingest_vars, sup_vars, flag_vars, stopInWait>>

----------------------------------------------------------------------------
\* EventBus (backend/event_bus.py).  subscribers is the dict _subscribers: a
\* function from the event types that have a list to that list.  publish()
\* walks the list of the type with a for loop, one callback per step; the
\* iterator of a Python list is an index into the live list, so a subscribe
\* or unsubscribe made while a publish is suspended in a callback changes
\* what the remaining steps see.

\* The history of a publish() call across a change of the subscription
\* table: a change made while the call is iterating is recorded in mutated
\* when it touches the list being walked (touched); the first change made
\* after the call returned ends the observation of that call.
Observe(touched) ==
    IF pub.pc = "iter"
    THEN /\ changes < MaxChanges
         /\ changes' = changes + 1
         /\ mutated' = (mutated \/ touched)
         /\ UNCHANGED <<pub, invoked, registered, pub_outcome>>
    ELSE /\ pub' = NoPublish
         /\ invoked' = <<>>
         /\ registered' = <<>>
         /\ mutated' = FALSE
         /\ changes' = 0
         /\ pub_outcome' = "none"

\* subscribe(event_type, callback)
Subscribe(event_type, callback) ==
    /\ \/ event_type \notin DOMAIN subscribers
       \/ /\ event_type \in DOMAIN subscribers
          /\ Len(subscribers[event_type]) < MaxSubs
    /\ subscribers' =
         IF event_type \in DOMAIN subscribers
         THEN [subscribers EXCEPT ![event_type] = Append(@, callback)]
         ELSE [e \in DOMAIN subscribers \cup {event_type} |->
                 IF e = event_type THEN <<callback>> ELSE subscribers[e]]
    /\ Observe(pub.event_type = event_type)
    /\ UNCHANGED <<mapper_vars, notif_vars, storage_vars, more_vars>>
    /\ UNCHANGED <<ingest_vars, sup_vars, flag_vars, stopInWait>>

\* list.remove(x): the list without the first occurrence of x.
RECURSIVE Remove(_, _)
Remove(list, x) ==
    IF list = <<>> THEN <<>>
    ELSE IF Head(list) = x THEN Tail(list)
    ELSE <<Head(list)>> \o Remove(Tail(list), x)

\* unsubscribe(event_type, callback); the ValueError of list.remove for a
\* callback that is not in the list is caught and logged.
Unsubscribe(event_type, callback) ==
    /\ event_type \in DOMAIN subscribers
    /\ subscribers' = [subscribers EXCEPT ![event_type] = Remove(@, callback)]
    /\ Observe(/\ pub.event_type = event_type
               /\ subscribers'[event_type] # subscribers[event_type])
    /\ UNCHANGED <<mapper_vars, notif_vars, storage_vars, more_vars>>
    /\ UNCHANGED <<ingest_vars, sup_vars, flag_vars, stopInWait>>

\* The list publish() walks: the list of 'throw' when there is one, whatever
\* the type published.
CallbackListAnyType(subs, event_type) ==
    IF "throw" \in DOMAIN subs THEN subs["throw"] ELSE subs[event_type]

\* The list publish() walks: self._subscribers[event_type].
CallbackList(subs, event_type) == subs[event_type]

\* publish(event_type, data) up to the for loop: returns at once when the
\* type has no list.
PublishCall(event_type, data) ==
    /\ pub.pc = "idle"
    /\ pub' = [pc |-> IF event_type \in DOMAIN subscribers THEN "iter" ELSE "idle",
               event_type |-> event_type, data |-> data, index |-> 0]
    /\ invoked' = <<>>
    /\ registered' = IF event_type \in DOMAIN subscribers
                     THEN subscribers[event_type] ELSE <<>>
    /\ mutated' = FALSE
    /\ changes' = 0
    /\ pub_outcome' = IF event_type \in DOMAIN subscribers THEN "none" ELSE "returned"
    /\ UNCHANGED subscribers
    /\ UNCHANGED <<mapper_vars, notif_vars, storage_vars, more_vars>>
    /\ UNCHANGED <<ingest_vars, sup_vars, flag_vars, stopInWait>>

\* What publish() does when a callback raises: the exception leaves publish().
OnCallbackErrorPropagates == "raise"

\* What publish() does when a callback raises: except Exception logs it and
\* the for loop goes on.
OnCallbackError == "continue"

\* One turn of the for loop of publish(): the next callback of the list is
\* called with data and returns or raises; the loop ends behind the last
\* element.
PublishNext(raises) ==
    /\ pub.pc = "iter"
    /\ LET list == CallbackList(subscribers, pub.event_type) IN
       IF pub.index < Len(list)
       THEN /\ invoked' = Append(invoked, [callback |-> list[pub.index + 1],
                                           data |-> pub.data,
                                           raised |-> raises])
            /\ IF raises /\ OnCallbackError = "raise"
               THEN /\ pub' = [pub EXCEPT !.pc = "idle"]
                    /\ pub_outcome' = "raised"
               ELSE /\ pub' = [pub EXCEPT !.index = @ + 1]
                    /\ UNCHANGED pub_outcome
       ELSE /\ raises = FALSE
            /\ pub' = [pub EXCEPT !.pc = "idle"]
            /\ pub_outcome' = "returned"
            /\ UNCHANGED invoked
    /\ UNCHANGED <<subscribers, registered, mutated, changes>>
    /\ UNCHANGED <<mapper_vars, notif_vars, storage_vars, more_vars>>
    /\ UNCHANGED <<ingest_vars, sup_vars, flag_vars, stopInWait>>

----------------------------------------------------------------------------
\* DartDatabase (src/src/data/storage.py): the dart_throws table, save_throw
\* and get_throws.  A row is reduced to id, timestamp and device_address; the
\* timestamp column holds datetime.isoformat() text, whose text order is the
\* order of the (naive) datetimes, so timestamps are integers here.  The
\* start_time and end_time filters are not modelled.

\* save_throw: INSERT one row; id is the AUTOINCREMENT key.
SaveThrow(timestamp, device_address) ==
    /\ Len(dart_throws) < MaxRows
    /\ dart_throws' = Append(dart_throws,
           [id |-> Len(dart_throws) + 1, timestamp |-> timestamp,
            device_address |-> device_address])
    /\ query' = NoQuery
    /\ UNCHANGED <<bus_vars, mapper_vars, notif_vars, more_vars>>
    /\ UNCHANGED <<ingest_vars, sup_vars, flag_vars, stopInWait>>

\* The WHERE clause: `if device_address:` adds the filter.
Where(device_address) ==
    {i \in DOMAIN dart_throws :
        device_address # NoAddress =>
            dart_throws[i].device_address = device_address}

\* ORDER BY timestamp DESC: every order of the selected rows with no
\* timestamp increasing; rows of equal timestamp come in any order.
OrderBy(rows) ==
    {s \in [1 .. Cardinality(rows) -> rows] :
        /\ \A i, j \in DOMAIN s : i < j => s[i] # s[j]
        /\ \A i, j \in DOMAIN s :
              i < j => dart_throws[s[i]].timestamp >= dart_throws[s[j]].timestamp}

\* `if limit:` adds LIMIT ?; None and 0 add nothing.
LimitOf(rows, limit) ==
    IF limit = None \/ limit = 0
    THEN rows
    ELSE SubSeq(rows, 1, Min(limit, Len(rows)))

\* get_throws(limit, device_address).
GetThrows(limit, device_address) ==
    /\ \E s \in OrderBy(Where(device_address)) :
          query' = [limit |-> limit, device_address |-> device_address,
                    throws |-> [i \in DOMAIN LimitOf(s, limit) |->
                                   dart_throws[LimitOf(s, limit)[i]]],
                    called |-> TRUE]
    /\ UNCHANGED dart_throws
    /\ UNCHANGED <<bus_vars, mapper_vars, notif_vars, more_vars>>
    /\ UNCHANGED <<ingest_vars, sup_vars, flag_vars, stopInWait>>

----------------------------------------------------------------------------
\* BLEManager(): __new__ and __init__ (src/backend/ble_manager.py:24-66),
\* called by the threads Callers.  Each `with self._lock` block is one step;
\* the body of __init__ runs outside the lock, in two steps.  Positions:
\*   idle       the caller has not called BLEManager() yet
\*   new        in __new__, before the lock
\*   init       __new__ returned, in __init__ before the lock
\*   body       the check passed, the body of __init__ begins
\*   start      the attributes and the queue exist, before the thread start
\*   returned   BLEManager() returned to the caller

Others == <<ingest_vars, sup_vars, flag_vars, stopInWait, bus_vars,
            mapper_vars, notif_vars, storage_vars, game_vars>>

\* The caller c calls BLEManager().
Construct(c) ==
    /\ ctor[c] = "idle"
    /\ ctor' = [ctor EXCEPT ![c] = "new"]
    /\ UNCHANGED <<singleton, created, initialized, init_runs, queue_created,
                   worker_started, obtained>>
    /\ UNCHANGED Others

\* __new__: with cls._lock: if cls._instance is None: make it; return it.
New(c) ==
    /\ ctor[c] = "new"
    /\ singleton' = IF singleton = 0 THEN created + 1 ELSE singleton
    /\ created' = IF singleton = 0 THEN created + 1 ELSE created
    /\ obtained' = [obtained EXCEPT ![c] = singleton']
    /\ ctor' = [ctor EXCEPT ![c] = "init"]
    /\ UNCHANGED <<initialized, init_runs, queue_created, worker_started>>
    /\ UNCHANGED Others

\* __init__: with self._lock: if hasattr(self, '_initialized'): return;
\* self._initialized = True.  The position after the block.
AfterCheck(done) == IF done THEN "returned" ELSE "body"

InitCheck(c) ==
    /\ ctor[c] = "init"
    /\ ctor' = [ctor EXCEPT ![c] = AfterCheck(initialized)]
    /\ initialized' = TRUE
    /\ init_runs' = IF initialized THEN init_runs ELSE init_runs + 1
    /\ UNCHANGED <<singleton, created, queue_created, worker_started, obtained>>
    /\ UNCHANGED Others

\* The body of __init__ up to the creation of the queue (lines 41-60).
InitBody(c) ==
    /\ ctor[c] = "body"
    /\ queue_created' = TRUE
    /\ ctor' = [ctor EXCEPT ![c] = "start"]
    /\ UNCHANGED <<singleton, created, initialized, init_runs, worker_started,
                   obtained>>
    /\ UNCHANGED Others

\* self._processing_thread.start(); __init__ returns.
InitStart(c) ==
    /\ ctor[c] = "start"
    /\ worker_started' = TRUE
    /\ ctor' = [ctor EXCEPT ![c] = "returned"]
    /\ UNCHANGED <<singleton, created, initialized, init_runs, queue_created,
                   obtained>>
    /\ UNCHANGED Others

----------------------------------------------------------------------------
\* ZeroOneGame (src/backend/games/zero_one.py) and BaseGame
\* (src/backend/games/base.py), as operators on the record G of the game's
\* attributes.  A method that can raise gives the pair <<G', outcome>>,
\* where outcome is the 'type' of the returned dict or "raised" and G' holds
\* the assignments made before the exception.

NumPlayers(G) == Cardinality(DOMAIN G.scores)

\* BaseGame.next_player
NextPlayer(G) ==
    LET i == G.current_player_index
        j == (i + 1) % NumPlayers(G)
    IN  [G EXCEPT !.is_current = [[@ EXCEPT ![i] = FALSE] EXCEPT ![j] = TRUE],
                  !.current_player_index = j]

\* An addition of throw.get('score', 0) over the throws raises TypeError
\* when one of the scores is None.
HasNone(throws) == \E i \in DOMAIN throws : throws[i].score = None

RECURSIVE SumScores(_)
SumScores(throws) ==
    IF throws = <<>> THEN 0
    ELSE Head(throws).score + SumScores(Tail(throws))

\* An entry of self.history (player_name and round_score left out).
Entry(G, outcome, throws) ==
    [round |-> G.round_count, player_id |-> G.current_player_index,
     result |-> outcome, throws |-> throws]

\* ZeroOneGame._complete_round
CompleteRound(G) ==
    IF HasNone(G.current_round_throws)
    THEN <<G, "raised">>
    ELSE LET G1 == [G EXCEPT
                      !.history = Append(@, Entry(G, "completed",
                                                  G.current_round_throws)),
                      !.current_round_throws = <<>>]
             G2 == NextPlayer(G1)
         IN  <<IF G2.current_player_index = 0
               THEN [G2 EXCEPT !.round_count = @ + 1]
               ELSE G2,
               "round_completed">>

\* ZeroOneGame._handle_bust for the current player
HandleBust(G) ==
    LET T == G.current_round_throws
        before == SubSeq(T, 1, Len(T) - 1)
        p == G.current_player_index
    IN  IF HasNone(before)
        THEN <<G, "raised">>
        ELSE <<[G EXCEPT !.scores[p] = @ + SumScores(before),
                         !.history = Append(@, Entry(G, "bust", T)),
                         !.current_round_throws = <<>>],
               "bust">>

\* result = self._handle_bust(...); self._complete_round(); return result
BustAndComplete(G) ==
    IF HandleBust(G)[2] = "raised"
    THEN HandleBust(G)
    ELSE <<CompleteRound(HandleBust(G)[1])[1], HandleBust(G)[2]>>

\* A win that leaves the winner's score as it was.
HandleWinKeepsScore(G) ==
    LET p == G.current_player_index IN
    <<[G EXCEPT !.state = "finished", !.winner = p,
                !.history = Append(@, Entry(G, "win", G.current_round_throws))],
      "game_finished">>

\* ZeroOneGame._handle_win for the current player
HandleWin(G) ==
    LET p == G.current_player_index IN
    <<[G EXCEPT !.state = "finished", !.winner = p, !.scores[p] = 0,
                !.history = Append(@, Entry(G, "win", G.current_round_throws))],
      "game_finished">>

\* ZeroOneGame._is_valid_finish
IsValidFinish(finish_type, throw_d) ==
    IF finish_type = "straight" THEN TRUE
    ELSE IF finish_type = "double" THEN throw_d.multiplier = 2
    ELSE IF finish_type = "master" THEN throw_d.multiplier \in {2, 3}
    ELSE FALSE

\* A game that is never over.
IsFinishedNever(G) == FALSE

\* if self.state == 'finished'
IsFinished(G) == G.state = "finished"

\* ZeroOneGame.handle_throw
HandleThrow(G, throw_d) ==
    IF IsFinished(G) THEN <<G, "error">>
    ELSE
    LET G0 == [G EXCEPT !.state = "playing"]
        p == G0.current_player_index
        current_score == G0.scores[p]
    IN  IF throw_d.segment_code = PLAYER_CHANGE
        THEN <<NextPlayer([G0 EXCEPT !.current_round_throws = <<>>]),
               "player_changed">>
        ELSE
        LET G1 == [G0 EXCEPT !.current_round_throws = Append(@, throw_d)] IN
        IF throw_d.score = None
        THEN <<G1, "raised">>
        ELSE
        LET new_score == current_score - throw_d.score IN
        IF new_score < 0 THEN BustAndComplete(G1)
        ELSE IF new_score = 0
        THEN IF IsValidFinish(G1.finish_type, throw_d)
             THEN HandleWin(G1)
             ELSE BustAndComplete(G1)
        ELSE
        LET G2 == [G1 EXCEPT !.scores[p] = new_score] IN
        IF Len(G2.current_round_throws) >= max_throws_per_round
        THEN CompleteRound(G2)
        ELSE <<G2, "throw_processed">>

\* GameStateManager.create_game('zero_one', n player names, settings).
CreateGame(n, finish_type) ==
    /\ game = NoGame
    /\ game' = NewGame(n, finish_type)
    /\ UNCHANGED <<result, last_throw, ncalls, turn_start>>
    /\ UNCHANGED singleton_vars
    /\ UNCHANGED <<ingest_vars, sup_vars, flag_vars, stopInWait, bus_vars,
                   mapper_vars, notif_vars, storage_vars>>

\* One call game.handle_throw(throw_d) on the game created.
HandleThrowCall(throw_d) ==
    /\ game # NoGame
    /\ ncalls < MaxCalls
    /\ ncalls' = ncalls + 1
    /\ game' = HandleThrow(game, throw_d)[1]
    /\ result' = HandleThrow(game, throw_d)[2]
    /\ last_throw' = throw_d
    /\ turn_start' =
          IF game'.current_player_index # game.current_player_index
             \/ HandleThrow(game, throw_d)[2]
                   \in {"player_changed", "bust", "round_completed"}
          THEN game'.scores[game'.current_player_index]
          ELSE turn_start
    /\ UNCHANGED singleton_vars
    /\ UNCHANGED <<ingest_vars, sup_vars, flag_vars, stopInWait, bus_vars,
                   mapper_vars, notif_vars, storage_vars>>

----------------------------------------------------------------------------
\* Specifications.

\* The supervisor: start_background, stop, the threads, the peripheral.
Next ==
    \/ StartBackground
    \/ Stop
    \/ \E ok \in BOOLEAN : StopCleanup(ok)
    \/ \E t \in Threads : ThreadStep(t)
    \/ \E c \in Threads : LinkLost(c)

Spec == Init /\ [][Next]_vars

\* The ingestion path: the notification callback, the worker,
\* start_background and stop.
NextIngest ==
    \/ \E code \in Codes : OnThrowData(code)
    \/ WorkerCheck
    \/ WorkerGet
    \/ WorkerTimeout
    \/ \E save_ok \in BOOLEAN : WorkerProcess(save_ok)
    \/ StartBackground
    \/ Stop

SpecIngest == Init /\ [][NextIngest]_vars

\* The supervisor when start_background is called once: a single thread.
StartOnce ==
    /\ nthreads = 0
    /\ StartBackground

NextSingle ==
    \/ StartOnce
    \/ Stop
    \/ \E ok \in BOOLEAN : StopCleanup(ok)
    \/ \E t \in Threads : ThreadStep(t)
    \/ \E c \in Threads : LinkLost(c)

SpecSingle == Init /\ [][NextSingle]_vars

\* One call of start_background and one call of stop, with the scheduling of
\* the supervisor: a thread that can take a step eventually takes it (the
\* event loop resumes every coroutine whose sleep or await is over), and the
\* cleanup handed over by stop() runs or times out.  When start_background
\* and stop are called and when the link drops is up to the environment.
StopOnce ==
    /\ ~stop_requested
    /\ Stop

NextOnce ==
    \/ StartOnce
    \/ StopOnce
    \/ \E ok \in BOOLEAN : StopCleanup(ok)
    \/ \E t \in Threads : ThreadStep(t)
    \/ \E c \in Threads : LinkLost(c)

FairSpecOnce ==
    /\ Init /\ [][NextOnce]_vars
    /\ \A t \in Threads : WF_vars(ThreadStep(t))
    /\ WF_vars(\E ok \in BOOLEAN : StopCleanup(ok))

\* Calibration while the pipeline runs: update_mapping calls for the code
\* 0x28 on the manager's mapper, in any interleaving with the deliveries of
\* that code and with the steps of the worker.
NextCalib ==
    \/ OnThrowData(40)
    \/ WorkerCheck
    \/ WorkerGet
    \/ WorkerTimeout
    \/ \E save_ok \in BOOLEAN : WorkerProcess(save_ok)
    \/ \E value \in UpdateValues : UpdateMapping(40, value)

SpecCalib == Init /\ [][NextCalib]_vars

\* The notification handler on its own: payloads of every length, with and
\* without a data callback.
NextNotify ==
    \/ \E callback \in BOOLEAN : SetDataCallback(callback)
    \/ \E data \in NotifyPayloads, callback_raises \in BOOLEAN :
          NotificationHandler(data, callback_raises)

SpecNotify == Init /\ [][NextNotify]_vars

\* The SegmentMapper on its own: calibration updates and export/import
\* round trips in any order.
NextMapper ==
    \/ \E code \in UpdateCodes, value \in UpdateValues : UpdateMapping(code, value)
    \/ RoundTrip

SpecMapper == Init /\ [][NextMapper]_vars

\* The EventBus on its own: subscriptions, cancellations and publish calls
\* in any order.
NextBus ==
    \/ \E e \in EventTypes, c \in Callbacks : Subscribe(e, c)
    \/ \E e \in EventTypes, c \in Callbacks : Unsubscribe(e, c)
    \/ \E e \in EventTypes, d \in Payloads : PublishCall(e, d)
    \/ \E raises \in BOOLEAN : PublishNext(raises)

SpecBus == Init /\ [][NextBus]_vars

\* The database: inserts and queries.
NextStorage ==
    \/ \E timestamp \in 1 .. MaxTime, device_address \in Addresses :
          SaveThrow(timestamp, device_address)
    \/ \E limit \in Limits, device_address \in Addresses \cup {NoAddress} :
          GetThrows(limit, device_address)

SpecStorage == Init /\ [][NextStorage]_vars

\* Concurrent constructions of the manager.
NextSingleton ==
    \E c \in Callers :
        \/ Construct(c)
        \/ New(c)
        \/ InitCheck(c)
        \/ InitBody(c)
        \/ InitStart(c)

SpecSingleton == Init /\ [][NextSingleton]_vars

\* A game and the throws applied to it: every throw_data, the throw event
\* of an uncalibrated code included.
NextGame ==
    \/ \E n \in 1 .. MaxPlayers, finish_type \in VALID_FINISH_TYPES :
          CreateGame(n, finish_type)
    \/ \E throw_d \in GameThrows : HandleThrowCall(throw_d)

SpecGame == Init /\ [][NextGame]_vars

\* A game whose throws all carry integer scores.
NextGameInt ==
    \/ \E n \in 1 .. MaxPlayers, finish_type \in VALID_FINISH_TYPES :
          CreateGame(n, finish_type)
    \/ \E throw_d \in IntThrows : HandleThrowCall(throw_d)

SpecGameInt == Init /\ [][NextGameInt]_vars

----------------------------------------------------------------------------
\* Properties of the ingestion path (checked under SpecIngest).

Range(f) == {f[i] : i \in DOMAIN f}
Timestamps(q) == [i \in DOMAIN q |-> q[i].timestamp]
\* The number of entries of sequence q with property P.
CountRows(q, ts) == Cardinality({i \in DOMAIN q : q[i].timestamp = ts})
CountEvents(type, ts) ==
    Cardinality({i \in DOMAIN published :
                    published[i].type = type /\ published[i].timestamp = ts})
\* The samples the worker has finished with: their save returned or their
\* processing raised.
Processed == Range(saved) \cup failed
\* The timestamps of the samples accepted into the queue so far.
Accepted == (1 .. npush) \ rejected

\* C1: the push never raises and never blocks (it can be taken in every
\* state), the queue never holds more than its capacity,
\* a push onto a full queue leaves the queued samples unchanged, and as long
\* as nothing was dequeued the queue holds exactly the first
\* min(pushes, capacity) samples, in order.
C1_State ==
    /\ Len(processing_queue) <= maxsize
    /\ push_outcome \in {"none", "queued", "full", "error"}
    /\ nget = 0 =>
         Timestamps(processing_queue) = [i \in 1 .. Min(npush, maxsize) |-> i]
    /\ npush < MaxPush => ENABLED (\E code \in Codes : OnThrowData(code))
C1_Step ==
    (npush' = npush + 1 /\ Len(processing_queue) = maxsize)
        => processing_queue' = processing_queue
C1_BoundedQueue == [](C1_State) /\ [][C1_Step]_vars

\* More pushes than the capacity, nothing dequeued, the queue is full.
C1_Witness ==
    /\ npush > maxsize
    /\ nget = 0
    /\ Len(processing_queue) = maxsize
    /\ push_outcome = "full"

\* C2: the drop counter equals the number of samples refused by a full queue.
C2_DropCounter == drop_counter = Cardinality(rejected)

\* C8: an error while processing a sample does not end the worker (the worker
\* ends only when _worker_running is false), and every sample the worker has
\* dequeued and finished either raised or is persisted once and, unless it is
\* the player-change marker, published as a throw.
C8_State ==
    \A ts \in Accepted :
        (/\ ts \notin Range(Timestamps(processing_queue))
         /\ ts # throw_data.timestamp)
        => \/ \E r \in failed : r.timestamp = ts
           \/ /\ CountRows(saved, ts) = 1
              /\ CountEvents("throw", ts) + CountEvents("player_change", ts) = 1
C8_Step == (wpc # "stopped" /\ wpc' = "stopped") => ~worker_running
C8_WorkerResilience == [](C8_State) /\ [][C8_Step]_vars

\* [valid, malformed, valid]: the second sample raised in decoding, the first
\* and the third are persisted and published.
C8_Witness ==
    /\ [segment_code |-> NoneCode, timestamp |-> 2, error |-> "decode"] \in failed
    /\ CountRows(saved, 1) = 1 /\ CountEvents("throw", 1) = 1
    /\ CountRows(saved, 3) = 1 /\ CountEvents("throw", 3) = 1

\* C9: every sample accepted into the queue is handed to save; stated for the
\* final state of the worker: once the worker thread has ended (it is never
\* started again), no accepted sample is left unprocessed.
C9_Durable ==
    wpc = "stopped" =>
        \A ts \in Accepted : \E r \in Processed : r.timestamp = ts

\* C10: a processed player-change sample gives exactly one player_change
\* event, no throw event, and one row when its save returned; every other
\* sample whose save returned gives exactly one throw event, no player_change
\* event and one row; a sample that raised before its publish gives no event.
C10_PlayerChange ==
    \A r \in Processed :
        IF r.segment_code = PLAYER_CHANGE
        THEN /\ CountEvents("player_change", r.timestamp) = 1
             /\ CountEvents("throw", r.timestamp) = 0
             /\ CountRows(saved, r.timestamp) = (IF r \in failed THEN 0 ELSE 1)
        ELSE /\ CountEvents("player_change", r.timestamp) = 0
             /\ CountEvents("throw", r.timestamp) = (IF r \in failed THEN 0 ELSE 1)
             /\ CountRows(saved, r.timestamp) = (IF r \in failed THEN 0 ELSE 1)

\* A player-change sample and an ordinary throw were both saved and published.
C10_Witness ==
    /\ \E r \in Range(saved) :
         /\ r.segment_code = PLAYER_CHANGE
         /\ CountEvents("player_change", r.timestamp) = 1
    /\ \E r \in Range(saved) :
         /\ r.segment_code = 40
         /\ CountEvents("throw", r.timestamp) = 1

----------------------------------------------------------------------------
\* Properties of the supervisor.

\* The supervisory loop of thread t is live: created and not yet returned.
LoopLive(t) == pc[t] \notin {"idle", "done"}

\* C3: when stop() arrives while a supervisor is in its monitoring loop and
\* start_background is not called afterwards, that supervisor goes from the
\* monitoring loop through the cleanup to its end and nowhere else: it starts
\* no scan, no connection attempt and no backoff.
C3_Step ==
    \A t \in Threads :
        stopInMonitor[t] =>
            pc'[t] \in {"monitor", "cleanup_stop_notify", "cleanup_disconnect",
                        "done"}
C3_StopWhileConnected == [][C3_Step]_vars

\* C4: after stop(), unless start_background is called again, every
\* supervisory loop terminates and is_running is false.
AllTerminated == \A t \in Threads : ~LoopLive(t)
C4_StopEffective ==
    stop_requested ~> (~stop_requested \/ (AllTerminated /\ ~is_running))

\* C5: a supervisor suspended in a wait (retry delay, backoff sleep, poll)
\* when stop() is requested does not leave that wait into a new scan pass or
\* a new connection attempt (start_background not being called in between).
C5_Step ==
    \A t \in Threads :
        (stop_requested /\ stopInWait[t] /\ pc[t] \in WaitPositions)
            => pc'[t] \notin {"scan_once", "connect"}
C5_RecheckAfterWait == [][C5_Step]_vars

\* C6: at most one supervisory loop is running at any time.
C6_OneLoop == Cardinality({t \in Threads : LoopRunning(t)}) <= 1

\* C7: what a scanning phase that ends with device_not_found did:
\* scan_retry_max passes with one delay between two passes, then the event.
NotFoundPhase ==
    [i \in 1 .. 2 * scan_retry_max |->
        IF i = 2 * scan_retry_max THEN "device_not_found"
        ELSE IF i % 2 = 1 THEN "pass" ELSE "delay"]
\* C7: in every scanning phase passes and delays alternate, beginning with a
\* pass; a pass that finds the device ends the phase at once; and the
\* device_not_found event is published once, after exactly scan_retry_max
\* passes with scan_retry_max - 1 delays between them.
C7_ScanBackoff ==
    \A t \in Threads :
        LET L == scanlog[t] IN
        /\ Len(L) <= 2 * scan_retry_max
        /\ \A i \in DOMAIN L :
             /\ i % 2 = 1 => L[i] \in {"pass", "found"}
             /\ i % 2 = 0 => L[i] \in {"delay", "device_not_found"}
             /\ L[i] = "found" => i = Len(L)
             /\ L[i] = "device_not_found" => L = NotFoundPhase
        /\ pc[t] = "scan_delay" => (L # <<>> /\ L[Len(L)] = "pass")
        /\ pc[t] = "scan_once" => (L = <<>> \/ L[Len(L)] = "delay")
        /\ (pc[t] = "sleep5" /\ L # <<>>) => L = NotFoundPhase

\* A scanning phase has ended with device_not_found and the backoff follows.
C7_Witness ==
    \E t \in Threads : pc[t] = "sleep5" /\ scanlog[t] = NotFoundPhase

----------------------------------------------------------------------------
\* Claims about the EventBus (checked under SpecBus).

\* The callbacks of an invocation history, in the order of the calls.
CallbacksOf(h) == [i \in DOMAIN h |-> h[i].callback]

\* C11  Event fan-out.  A publish() call during which the list of its type
\* was not changed, and that has returned, has invoked exactly the callbacks
\* registered for the type when it began: one call per registration, in
\* subscription order, each with the payload published (so a callback
\* registered only under another type is not called, and a type without
\* subscribers gets no call at all); no step of a publish() call changes the
\* subscription table.
C11_State ==
    (pub_outcome = "returned" /\ ~mutated) =>
        /\ CallbacksOf(invoked) = registered
        /\ \A i \in DOMAIN invoked : invoked[i].data = pub.data
        /\ (pub.event_type \notin DOMAIN subscribers => invoked = <<>>)
C11_Step ==
    (/\ pub' # NoPublish
     /\ <<pub, invoked, pub_outcome>>' # <<pub, invoked, pub_outcome>>)
        => subscribers' = subscribers
C11_FanOut == [](C11_State) /\ [][C11_Step]_vars

\* A publish of 'player_change' has returned after calling h2 then h1, while
\* 'throw' has a different list.
C11_Witness ==
    /\ pub_outcome = "returned"
    /\ ~mutated
    /\ pub.event_type = "player_change"
    /\ CallbacksOf(invoked) = <<"h2", "h1">>
    /\ "throw" \in DOMAIN subscribers
    /\ subscribers["throw"] = <<"h1", "h1">>

\* C12  Handler fault isolation.  publish() never ends by raising, and a
\* publish() call (whose list was not changed meanwhile) does not return
\* before every callback of the list has been called, however many of the
\* calls before raised and wherever they stand in the list.
C12_FaultIsolation ==
    /\ pub_outcome # "raised"
    /\ (~mutated /\ pub.pc = "iter") =>
          /\ Len(invoked) = pub.index
          /\ pub_outcome = "none"
    /\ (~mutated /\ pub.pc = "idle" /\ pub # NoPublish) =>
          /\ pub_outcome = "returned"
          /\ Len(invoked) = Len(registered)

\* A publish over two registrations has returned although the first call
\* raised; the second callback was called all the same.
C12_Witness ==
    /\ pub_outcome = "returned"
    /\ ~mutated
    /\ registered = <<"h1", "h2">>
    /\ invoked[1].raised
    /\ invoked[2].callback = "h2"

----------------------------------------------------------------------------
\* Claims about the SegmentMapper (checked under SpecMapper).

Bytes == 0 .. 255

\* C13  Decoder round-trip.  After a fresh mapper imported the table
\* exported by the mapper, get_segment_info gives the same result on both
\* for every code of the exporting mapper's table, whatever update_mapping
\* calls the exporting mapper had before.
C13_RoundTrip ==
    mop = "import" =>
        /\ DOMAIN mapping \subseteq DOMAIN imported
        /\ \A code \in DOMAIN mapping :
              GetSegmentInfo(imported, code) = GetSegmentInfo(mapping, code)

\* A round trip made after update_mapping gave the code 0xff, unknown by
\* default, an entry.
C13_Witness ==
    /\ mop = "import"
    /\ 255 \in DOMAIN mapping
    /\ imported[255] = <<20, 3, <<"test triple 20">>>>
    /\ imported[40] = <<20, None, <<"test no multiplier">>>>

\* C14  Unknown codes never fail.  For every byte that has no entry in the
\* table, get_segment_info returns None, None and a name that starts with
\* the unknown marker and carries the code in hexadecimal, get_score returns
\* None, and the decoding does not raise.
C14_UnknownCodes ==
    \A code \in Bytes \ DOMAIN mapping :
        LET info == GetSegmentInfo(mapping, code) IN
        /\ ~DecodeRaises(code)
        /\ info[1] = None
        /\ info[2] = None
        /\ info[3][1] = "unknown("
        /\ Len(info[3]) >= 5
        /\ ParseKey(SubSeq(info[3], 2, Len(info[3]) - 1)) = code
        /\ GetScore(mapping, code) = None

\* After some calibration the bytes 0x00, 0x3c and 0xff still have no entry.
C14_Witness ==
    /\ mop = "update"
    /\ {0, 60, 255} \subseteq Bytes \ DOMAIN mapping
    /\ 40 \in DOMAIN mapping

\* C15  Score law.  get_score of a code is base number times multiplier
\* when get_segment_info gives both, None otherwise; the default table has a
\* double 20, and each of its entries named double 20 has base number 20,
\* multiplier 2 and score 40.
C15_ScoreLaw ==
    /\ \A code \in Bytes :
          LET info == GetSegmentInfo(mapping, code) IN
          IF info[1] # None /\ info[2] # None
          THEN GetScore(mapping, code) = info[1] * info[2]
          ELSE GetScore(mapping, code) = None
    /\ \E code \in DOMAIN DefaultMapping :
          DefaultMapping[code][3] = <<"double", "2", "0">>
    /\ \A code \in DOMAIN DefaultMapping :
          DefaultMapping[code][3] = <<"double", "2", "0">> =>
              /\ DefaultMapping[code][1] = 20
              /\ DefaultMapping[code][2] = 2
              /\ GetScore(DefaultMapping, code) = 40

\* A table that holds an entry with both numbers (triple 20 at 0xff), an
\* entry without multiplier (0x00) and the default double 20 at 0x28.
C15_Witness ==
    /\ 255 \in DOMAIN mapping
    /\ mapping[255] = <<20, 3, <<"test triple 20">>>>
    /\ 0 \in DOMAIN mapping
    /\ mapping[0][2] = None
    /\ mapping[40] = <<20, 2, <<"double", "2", "0">>>>

\* C16  In the default table the code 0x00 is calibrated: get_segment_info
\* gives it a base number, a multiplier and a name that is not empty and
\* not the unknown one, and its get_score is a positive number.
C16_ZeroCalibrated ==
    mapping = DefaultMapping =>
        LET info == GetSegmentInfo(mapping, 0) IN
        /\ info[1] # None
        /\ info[2] # None
        /\ info[3] # <<>>
        /\ info[3][1] # "unknown("
        /\ GetScore(mapping, 0) # None
        /\ GetScore(mapping, 0) > 0

\* C17  Calibration update.  From update_mapping(code, number, multiplier,
\* name) on, get_segment_info(code) returns exactly that entry until the
\* next update_mapping, whether the code had an entry before or not, and an
\* update changes the result of get_segment_info for no other byte.
C17_State ==
    upd # NoUpdate => GetSegmentInfo(mapping, upd.code) = upd.value
C17_Step ==
    mapping' # mapping =>
        \A code \in Bytes \ {upd'.code} :
            GetSegmentInfo(mapping', code) = GetSegmentInfo(mapping, code)
C17_Update == [](C17_State) /\ [][C17_Step]_vars

\* The last update gave an entry to 0xff, which had none, after an earlier
\* update of 0x28; a round trip was made since.
C17_Witness ==
    /\ upd = [code |-> 255, value |-> <<20, 3, <<"test triple 20">>>>]
    /\ mapping[40] = <<None, None, <<"test nothing">>>>
    /\ mop = "import"

----------------------------------------------------------------------------
\* Claims about decoded records (checked under SpecIngest).

\* C18  The player-change code has no score.  In the default table
\* get_score(0x54) is None and no entry with a score has the code 0x54, and
\* every record persisted for a player-change sample has score None.
C18_NoScore ==
    /\ GetScore(DefaultMapping, PLAYER_CHANGE) = None
    /\ \A code \in DOMAIN DefaultMapping :
          GetScore(DefaultMapping, code) # None => code # PLAYER_CHANGE
    /\ \A i \in DOMAIN saved :
          saved[i].segment_code = PLAYER_CHANGE => saved[i].score = None

\* The code is a byte without an entry in the mapper's table.
Uncalibrated(segment_code) == segment_code \in Bytes \ DOMAIN mapping

\* C19  Unknown segments do not block the pipeline.  The processing of a
\* sample with an uncalibrated code raises only when the save raises;
\* otherwise the sample is persisted once, with base number, multiplier and
\* score None, and published as exactly one throw event with the same three
\* fields None and as no player_change event; the worker goes on with its
\* loop after such a sample.
C19_State ==
    /\ \A r \in failed : Uncalibrated(r.segment_code) => r.error = "save"
    /\ \A i \in DOMAIN saved :
          Uncalibrated(saved[i].segment_code) =>
              /\ saved[i].base_number = None
              /\ saved[i].multiplier = None
              /\ saved[i].score = None
              /\ CountRows(saved, saved[i].timestamp) = 1
              /\ CountEvents("player_change", saved[i].timestamp) = 0
              /\ CountEvents("throw", saved[i].timestamp) = 1
              /\ \A j \in DOMAIN published :
                    published[j].timestamp = saved[i].timestamp =>
                        /\ published[j].segment_code = saved[i].segment_code
                        /\ published[j].base_number = None
                        /\ published[j].multiplier = None
                        /\ published[j].score = None
C19_Step ==
    (wpc = "process" /\ Uncalibrated(throw_data.segment_code) /\ wpc' # wpc)
        => wpc' = "check"
C19_UnknownSegment == [](C19_State) /\ [][C19_Step]_vars

\* A sample with the uncalibrated code 0x00 was persisted and published, and
\* the sample behind it was persisted after it.
C19_Witness ==
    /\ Len(saved) >= 2
    /\ saved[1].segment_code = 0
    /\ saved[1].score = None
    /\ CountEvents("throw", saved[1].timestamp) = 1
    /\ saved[2].segment_code = 40
    /\ saved[2].score = 40

----------------------------------------------------------------------------
\* Claims about the notification handler (checked under SpecNotify).

\* C20  Notification framing.  After every notification the handler has
\* returned without raising; the data callback was called exactly once, with
\* the third byte of the payload (offset 2), when the payload has exactly 5
\* bytes and a callback is registered, and was not called at all when the
\* payload has another length or no callback is registered; this holds also
\* when the callback raised.
C20_Framing ==
    /\ notif_outcome \in {"none", "returned"}
    /\ notif_outcome = "returned" =>
          IF Len(last_data) = 5 /\ data_callback
          THEN calls = <<last_data[3]>>
          ELSE calls = <<>> /\ ~callback_failed

\* A 5-byte frame a1 a1 28 a1 a1 reached a callback that raised, and the
\* handler returned.
C20_Witness ==
    /\ notif_outcome = "returned"
    /\ last_data = <<161, 161, 40, 161, 161>>
    /\ calls = <<40>>
    /\ callback_failed

----------------------------------------------------------------------------
\* Claims about the order of save and publish and about concurrent changes.

\* C28  Persist before publish.  Every event the worker has published
\* belongs to a sample whose save has returned (it has exactly one row), and
\* a sample whose save raised has no event.
C28_PersistFirst ==
    /\ \A i \in DOMAIN published :
          CountRows(saved, published[i].timestamp) = 1
    /\ \A r \in failed :
          r.error = "save" =>
              /\ CountEvents("throw", r.timestamp) = 0
              /\ CountEvents("player_change", r.timestamp) = 0

\* C29  publish works on the list as it was when the call began.  A
\* publish() call that has returned has invoked exactly the callbacks that
\* were registered for the type when it began, each once and in order,
\* whatever subscribe and unsubscribe calls were made for that type while it
\* was iterating.
C29_Snapshot ==
    pub_outcome = "returned" => CallbacksOf(invoked) = registered

\* base number times multiplier, None when one of them is None.
ScoreOf(base_number, multiplier) ==
    IF base_number = None \/ multiplier = None THEN None
    ELSE base_number * multiplier

\* C30  Decoded records are consistent under calibration changes.  In
\* every record persisted and in every throw event published the score is
\* base number times multiplier of that same record, and None exactly when
\* one of the two is None, whatever update_mapping calls were made while
\* the worker decoded the sample.
C30_Consistent ==
    /\ \A i \in DOMAIN saved :
          saved[i].score = ScoreOf(saved[i].base_number, saved[i].multiplier)
    /\ \A i \in DOMAIN published :
          published[i].type = "throw" =>
              published[i].score =
                  ScoreOf(published[i].base_number, published[i].multiplier)

----------------------------------------------------------------------------
\* Properties of the database (checked under SpecStorage).

\* C23  Whenever get_throws is called with a limit L (0 included), it
\* returns exactly min(L, number of rows matching the filters) rows, the
\* most recent first, and with a device_address filter only rows of that
\* device.
C23_Limit ==
    (query.called /\ query.limit # None) =>
        /\ Len(query.throws) =
              Min(query.limit, Cardinality(Where(query.device_address)))
        /\ \A i, j \in DOMAIN query.throws :
              i < j => query.throws[i].timestamp >= query.throws[j].timestamp
        /\ query.device_address # NoAddress =>
              \A i \in DOMAIN query.throws :
                  query.throws[i].device_address = query.device_address

----------------------------------------------------------------------------
\* Further properties of the supervisor and of DartsLiveClient.

\* C21  DartsLiveClient.is_connected is true exactly when the underlying
\* link is live, after any sequence of connect, disconnect (returning or
\* failing), stop_notify and link loss.
C21_Probe == \A c \in Threads : IsConnected(cl, c) <=> cl[c].link

\* C22  Cleanup never raises: whatever fails in it, stop() returns normally
\* to its caller.
C22_StopReturns == stop_outcome # "raised"

\* C24  Every ble_connected event is published after the data callback was
\* registered and after start_notify was called on the link.
C24_WiredFirst ==
    \A t \in Threads : \A i \in DOMAIN conlog[t] :
        conlog[t][i] = "ble_connected" =>
            /\ \E j \in 1 .. i - 1 : conlog[t][j] = "set_data_callback"
            /\ \E j \in 1 .. i - 1 : conlog[t][j] = "start_notify"

\* What a connecting phase that ends with connection_failed did:
\* reconnect_retry_max attempts with one delay between two attempts, then
\* the event.
ConnectFailedPhase ==
    [i \in 1 .. 2 * reconnect_retry_max + 1 |->
        IF i = 1 THEN "set_data_callback"
        ELSE IF i = 2 * reconnect_retry_max + 1 THEN "connection_failed"
        ELSE IF i % 2 = 0 THEN "connect" ELSE "delay"]
\* The log is that of a connecting phase.
Connecting(L) == L # <<>> /\ L[1] = "set_data_callback"

\* C25  In every connecting phase attempts and delays alternate, beginning
\* with an attempt; the first attempt that succeeds ends the phase (with
\* ble_connected); connection_failed is published once, after exactly
\* reconnect_retry_max failed attempts with a delay between two of them, and
\* without ble_connected; and the backoff that follows is left into a new
\* scanning phase (with a new client to come), or, only when is_running is
\* false, into the end of the loop.
C25_State ==
    \A t \in Threads :
        LET L == conlog[t] IN
        Connecting(L) =>
            /\ Len(L) <= 2 * reconnect_retry_max + 1
            /\ \A i \in 2 .. Len(L) :
                 /\ i % 2 = 0 => L[i] = "connect"
                 /\ i % 2 = 1 =>
                       L[i] \in {"delay", "connection_failed", "ble_connected"}
                 /\ L[i] \in {"connection_failed", "ble_connected"} => i = Len(L)
                 /\ L[i] = "connection_failed" => L = ConnectFailedPhase
            /\ pc[t] = "connect" =>
                  L[Len(L)] \in {"set_data_callback", "delay"}
            /\ pc[t] = "connect_delay" => L[Len(L)] = "connect"
            /\ pc[t] = "start_notify" => L[Len(L)] = "ble_connected"
            /\ pc[t] \in {"sleep5", "done"} => L = ConnectFailedPhase
C25_Step ==
    \A t \in Threads :
        (pc[t] = "sleep5" /\ pc'[t] # "sleep5") =>
            \/ pc'[t] = "scan_once" /\ attempt'[t] = 1 /\ conlog'[t] = <<>>
            \/ pc'[t] = "done" /\ ~is_running
C25_ConnectFailure == [](C25_State) /\ [][C25_Step]_vars

\* A connecting phase has ended with connection_failed and the backoff follows.
C25_Witness ==
    \E t \in Threads : pc[t] = "sleep5" /\ conlog[t] = ConnectFailedPhase

\* C26  For one connected phase at most one connection_lost event is
\* published, the cleanup follows it before the next scan, and no
\* connection_lost event follows a stop() issued in that phase.
C26_LossPath ==
    \A t \in Threads :
        LET L == conlog[t] IN
        /\ \A i, j \in DOMAIN L :
              (L[i] = "connection_lost" /\ L[j] = "connection_lost") => i = j
        /\ (pc[t] = "sleep3" /\ \E i \in DOMAIN L : L[i] = "connection_lost")
              => SubSeq(L, Len(L) - 1, Len(L)) = <<"stop_notify", "disconnect">>
        /\ \A i, j \in DOMAIN L :
              (L[i] = "stop" /\ L[j] = "connection_lost") => j < i

\* C27  A supervisor that has left the connected phase (it sleeps before the
\* next scan, or has ended) has called stop_notify and then disconnect as
\* the last things of that phase.
C27_CleanupFirst ==
    \A t \in Threads :
        LET L == conlog[t] IN
        (/\ pc[t] \in {"sleep3", "sleep5", "done"}
         /\ \E i \in DOMAIN L : L[i] = "start_notify")
            => /\ Len(L) >= 2
               /\ SubSeq(L, Len(L) - 1, Len(L)) = <<"stop_notify", "disconnect">>

----------------------------------------------------------------------------
\* Further properties of the ingestion path (checked under SpecIngest).

\* The timestamps of q are strictly increasing.
Increasing(q) ==
    \A i, j \in DOMAIN q : i < j => q[i].timestamp < q[j].timestamp

\* C31  Rows are saved and throw/player_change events are published in the
\* order in which their samples were accepted into the queue (the timestamp
\* of the model numbers the samples in that order), each accepted sample
\* gives at most one row and at most one event, and no sample is processed
\* before one that was accepted earlier and is still queued.
C31_Order ==
    /\ Increasing(saved)
    /\ Increasing(published)
    /\ Increasing(processing_queue)
    /\ \A i \in DOMAIN processing_queue :
          /\ \A j \in DOMAIN saved :
                saved[j].timestamp < processing_queue[i].timestamp
          /\ \A j \in DOMAIN published :
                published[j].timestamp < processing_queue[i].timestamp
          /\ throw_data # Nil =>
                throw_data.timestamp < processing_queue[i].timestamp
    /\ Range(Timestamps(saved)) \cup Range(Timestamps(published)) \subseteq Accepted

\* Two samples were saved and published, a third is still queued.
C31_Witness ==
    /\ Len(saved) = 2
    /\ Len(published) = 2
    /\ published[1].type # published[2].type
    /\ processing_queue # <<>>

----------------------------------------------------------------------------
\* Properties of the construction of the manager (checked under
\* SpecSingleton).

\* C32  For any interleaving of concurrent BLEManager() calls: every caller
\* gets the same object, the body of __init__ runs once, and no call returns
\* before that body has completed (queue created, worker thread started).
C32_Singleton ==
    /\ created <= 1
    /\ init_runs <= 1
    /\ \A c \in Callers :
          /\ ctor[c] \notin {"idle", "new"} => obtained[c] = 1
          /\ ctor[c] = "returned" => (queue_created /\ worker_started)

----------------------------------------------------------------------------
\* Properties of ZeroOneGame (checked under SpecGame, and under SpecGameInt
\* where the claim is about throws with integer scores).

\* This step is a handle_throw call on a game that is not over.
Thrown == ncalls' = ncalls + 1 /\ game.state # "finished"
\* The player whose turn it is before the step, and the one after them.
Current == game.current_player_index
Following == (game.current_player_index + 1) % NumPlayers(game)
\* The throw of this step is a scoring throw that takes the current player's
\* score to n.
Reaches(n) ==
    /\ last_throw'.segment_code # PLAYER_CHANGE
    /\ last_throw'.score # None
    /\ game.scores[Current] - last_throw'.score = n
\* The throw of this step takes the score below 0, or to 0 with a finish
\* that is not valid.
Busts ==
    /\ last_throw'.segment_code # PLAYER_CHANGE
    /\ last_throw'.score # None
    /\ \/ game.scores[Current] - last_throw'.score < 0
       \/ /\ game.scores[Current] - last_throw'.score = 0
          /\ ~IsValidFinish(game.finish_type, last_throw')

\* C33  For throws with non-negative integer scores: every player's score
\* stays between 0 and the starting score, a throw changes only the current
\* player's score, and a player's score is 0 exactly when the game is
\* finished with that player as winner.
C33_State ==
    \A q \in DOMAIN game.scores :
        /\ game.scores[q] >= 0
        /\ game.scores[q] <= starting_score
        /\ game.scores[q] = 0 <=> (game.state = "finished" /\ game.winner = q)
C33_Step ==
    Thrown =>
        \A q \in DOMAIN game.scores :
            q # Current => game'.scores[q] = game.scores[q]
C33_Scores == [](C33_State) /\ [][C33_Step]_vars

\* The second of two players has won; the first has thrown and not won.
C33_Witness ==
    /\ game.state = "finished"
    /\ game.winner = 1
    /\ game.scores[1] = 0
    /\ game.scores[0] > 0

\* C34  The game becomes finished only by a throw that takes the current
\* player's score to exactly 0 with a finish valid for the finish type
\* (straight: any; double: multiplier 2; master: multiplier 2 or 3); a throw
\* that reaches 0 with a finish that is not valid is handled as a bust and
\* the game goes on.
C34_Step ==
    /\ (game.state # "finished" /\ game'.state = "finished") =>
          /\ Thrown
          /\ Reaches(0)
          /\ game.finish_type = "double" => last_throw'.multiplier = 2
          /\ game.finish_type = "master" => last_throw'.multiplier \in {2, 3}
    /\ (Thrown /\ Reaches(0) /\ ~IsValidFinish(game.finish_type, last_throw')) =>
          /\ result' = "bust"
          /\ game'.state = "playing"
          /\ game'.scores[Current] = turn_start
C34_FinishRule == [][C34_Step]_vars

\* C35  A throw that takes the current player's score below 0, or to 0 with
\* a finish that is not valid, restores that player's score to its value at
\* the start of the turn and passes the turn to the next player.
C35_Step ==
    (Thrown /\ Busts) =>
        /\ result' = "bust"
        /\ game'.scores[Current] = turn_start
        /\ game'.current_round_throws = <<>>
        /\ game'.current_player_index = Following
C35_Bust == [][C35_Step]_vars

\* C36  Once the game is finished, every handle_throw call returns an error
\* and changes no attribute of the game.
C36_Step ==
    (game.state = "finished" /\ ncalls' = ncalls + 1) =>
        /\ result' = "error"
        /\ game' = game
C36_Absorbing == [][C36_Step]_vars

\* A call was made on a finished game and returned the error.
C36_Witness ==
    /\ game.state = "finished"
    /\ result = "error"
    /\ last_throw.segment_code = PLAYER_CHANGE

\* C37  While the game is not over the current turn holds at most 2
\* recorded throws between calls and exactly the player at
\* current_player_index is marked current; the turn passes, to the next
\* player in cyclic order, exactly when a call records the third throw of
\* the turn, busts, or carries the player-change code.
C37_State ==
    game.state \in {"waiting", "playing"} =>
        /\ Len(game.current_round_throws) <= max_throws_per_round - 1
        /\ \A q \in DOMAIN game.is_current :
              game.is_current[q] <=> q = game.current_player_index
C37_Step ==
    Thrown =>
        LET ends == \/ last_throw'.segment_code = PLAYER_CHANGE
                    \/ Busts
                    \/ /\ last_throw'.segment_code # PLAYER_CHANGE
                       /\ game'.state # "finished"
                       /\ Len(game.current_round_throws)
                             = max_throws_per_round - 1
        IN  /\ ends => /\ game'.current_player_index = Following
                       /\ game'.current_round_throws = <<>>
            /\ ~ends => game'.current_player_index = Current
C37_Rotation == [](C37_State) /\ [][C37_Step]_vars

\* C38  round_count grows by one when the turn passes from the last player
\* to the first one, whichever way the turn ended, and does not change
\* otherwise.
C38_Step ==
    (game # NoGame /\ game' # game) =>
        game'.round_count =
            IF /\ game'.current_player_index = 0
               /\ Current = NumPlayers(game) - 1
               /\ result' \in {"round_completed", "bust", "player_changed"}
            THEN game.round_count + 1
            ELSE game.round_count
C38_RoundCount == [][C38_Step]_vars

\* C39  A turn that ends by three throws, by a bust or by a win appends
\* exactly one history entry, with result completed, bust or win and with
\* the throws of that turn.
C39_Step ==
    (Thrown /\ result' \in {"round_completed", "bust", "game_finished"}) =>
        /\ Len(game'.history) = Len(game.history) + 1
        /\ LET e == game'.history[Len(game'.history)] IN
           /\ e.result = (IF result' = "round_completed" THEN "completed"
                          ELSE IF result' = "bust" THEN "bust" ELSE "win")
           /\ e.throws = Append(game.current_round_throws, last_throw')
C39_History == [][C39_Step]_vars

\* C40  A throw whose score is absent is not recorded in the throws of the
\* current turn, changes no score and does not advance the turn, and the
\* valid throws and busts after it are handled as usual.
C40_Step ==
    /\ (Thrown /\ last_throw'.segment_code # PLAYER_CHANGE
               /\ last_throw'.score = None) =>
          /\ game'.current_round_throws = game.current_round_throws
          /\ game'.scores = game.scores
          /\ game'.current_player_index = Current
    /\ (Thrown /\ last_throw'.score # None) => result' # "raised"
C40_AbsentScore == [][C40_Step]_vars

====
